---- MODULE Spec2Model ----
(***************************************************************************)
(* Verification model of the response-directive execution core of the      *)
(* terminal agents of BadrBouzakri/AI_Agent: the Mistral agents v04 and    *)
(* v05 (mistral_agent.py) and the linux_assistant helpers.                 *)
(*                                                                         *)
(* Python strings are modelled as sequences of one-character strings, so   *)
(* that substring tests, str.strip, shlex.split, the regular expressions   *)
(* of process_response and str.format are computed character by character  *)
(* as the code computes them.                                              *)
(***************************************************************************)
EXTENDS Integers, Sequences, FiniteSets, TLC

VARIABLES
    cl_cmd,      \* classifier check: the command string handed to the classifiers
    cl_out       \* classifier check: the three classifiers' outcomes, or "none"

classVars == <<cl_cmd, cl_out>>

(***************************************************************************)
(* Only({e(x) : x \in {v}}) is LET x == v IN e(x) with v evaluated once:   *)
(* the model checker evaluates a LET definition again at each use, which   *)
(* the character-level operators below cannot afford.  \E x \in {v} : P(x) *)
(* is the same binding for a formula.                                      *)
(***************************************************************************)
Only(S) == CHOOSE x \in S : TRUE

\* the least and the greatest element of a non-empty set of integers
Min(S) == CHOOSE i \in S : \A j \in S : i <= j
Max(S) == CHOOSE i \in S : \A j \in S : i >= j

(***************************************************************************)
(* Python str helpers                                                      *)
(***************************************************************************)
\* the characters str.strip, str.split and shlex take for white space
WhiteSpace == {" ", "\t", "\n", "\r"}

\* str.isspace for one character
IsSpace(c) == c \in WhiteSpace

\* the first index >= from at which s holds a character of chars, 0 when none
NextIn(s, chars, from) ==
    Only({ IF hits = {} THEN 0 ELSE Min(hits) :
           hits \in {{i \in from..Len(s) : s[i] \in chars}} })

\* s[i:].startswith(p) with i counted from 1
StartsWithAt(s, p, i) ==
    /\ i >= 1
    /\ i + Len(p) - 1 <= Len(s)
    /\ \A k \in 1..Len(p) : s[i + k - 1] = p[k]

\* s.startswith(p)
StartsWith(s, p) == StartsWithAt(s, p, 1)

\* p in s
Contains(s, p) == \E i \in 1..(Len(s) - Len(p) + 1) : StartsWithAt(s, p, i)

\* s.find(p, from): the least index >= from where p occurs, 0 when there is none
Find(s, p, from) ==
    Only({ IF hits = {} THEN 0 ELSE Min(hits) :
           hits \in {{i \in from..(Len(s) - Len(p) + 1) : StartsWithAt(s, p, i)}} })

\* s.strip()
Strip(s) ==
    Only({ IF keep = {} THEN <<>> ELSE SubSeq(s, Min(keep), Max(keep)) :
           keep \in {{i \in 1..Len(s) : ~IsSpace(s[i])}} })

\* s[n:] with n counted from 0 as in Python
DropFirst(s, n) == SubSeq(s, n + 1, Len(s))

\* s.replace(old, new, 1)
ReplaceFirst(s, old, new) ==
    Only({ IF i = 0 THEN s
           ELSE SubSeq(s, 1, i - 1) \o new \o SubSeq(s, i + Len(old), Len(s)) :
           i \in {Find(s, old, 1)} })

\* s.split(): the maximal runs of non-whitespace characters, in order
RECURSIVE SplitWS(_)
SplitWS(s0) ==
    Only({ IF \A i \in 1..Len(s) : IsSpace(s[i]) THEN <<>>
           ELSE Only({ Only({ <<SubSeq(s, lo, hi)>> \o SplitWS(SubSeq(s, hi + 1, Len(s))) :
                              hi \in {Min({i \in lo..Len(s) : i = Len(s) \/ IsSpace(s[i + 1])})} }) :
                       lo \in {Min({i \in 1..Len(s) : ~IsSpace(s[i])})} }) :
           s \in {s0} })

\* sep.join(parts)
RECURSIVE Join(_, _)
Join(parts, sep) ==
    IF parts = <<>> THEN <<>>
    ELSE IF Len(parts) = 1 THEN parts[1]
    ELSE parts[1] \o sep \o Join(Tail(parts), sep)

\* x in list
InList(x, list) == \E i \in 1..Len(list) : list[i] = x

(***************************************************************************)
(* shlex.split(command): POSIX mode, whitespace_split, no comments.        *)
(* state "ws" is between tokens, "a" inside a word, "sq"/"dq" inside       *)
(* quotes.  The result is [ok, parts]; ok = FALSE is the ValueError that   *)
(* shlex raises for an unclosed quotation or a trailing backslash.         *)
(***************************************************************************)
RECURSIVE ShlexScan(_, _, _, _, _)
ShlexScan(s, i0, state, tok0, toks0) ==
    Only({
        IF i > Len(s) THEN
            IF state \in {"sq", "dq"} THEN [ok |-> FALSE, parts |-> <<>>]
            ELSE IF state = "a" THEN [ok |-> TRUE, parts |-> Append(toks, tok)]
            ELSE [ok |-> TRUE, parts |-> toks]
        ELSE
        CASE state = "sq" ->
                \* up to the closing quote everything is literal
                Only({ IF q = 0 THEN [ok |-> FALSE, parts |-> <<>>]
                       ELSE ShlexScan(s, q + 1, "a", tok \o SubSeq(s, i, q - 1), toks) :
                       q \in {NextIn(s, {"'"}, i)} })
          [] state = "dq" ->
                \* up to the closing quote, a backslash escaping a quote or a backslash
                Only({ IF q = 0 THEN [ok |-> FALSE, parts |-> <<>>]
                       ELSE IF s[q] = "\""
                       THEN ShlexScan(s, q + 1, "a", tok \o SubSeq(s, i, q - 1), toks)
                       ELSE IF q = Len(s) THEN [ok |-> FALSE, parts |-> <<>>]
                       ELSE IF s[q + 1] \in {"\"", "\\"}
                       THEN ShlexScan(s, q + 2, "dq",
                                      tok \o SubSeq(s, i, q - 1) \o <<s[q + 1]>>, toks)
                       ELSE ShlexScan(s, q + 2, "dq", tok \o SubSeq(s, i, q + 1), toks) :
                       q \in {NextIn(s, {"\"", "\\"}, i)} })
          [] OTHER ->
                \* plain characters up to the next space, quote or backslash
                Only({ IF q = 0
                       THEN [ok |-> TRUE, parts |-> Append(toks, tok \o SubSeq(s, i, Len(s)))]
                       ELSE IF q > i
                       THEN ShlexScan(s, q, "a", tok \o SubSeq(s, i, q - 1), toks)
                       ELSE IF IsSpace(s[i]) THEN
                           IF state = "a" THEN ShlexScan(s, i + 1, "ws", <<>>, Append(toks, tok))
                           ELSE ShlexScan(s, i + 1, "ws", <<>>, toks)
                       ELSE IF s[i] = "'" THEN ShlexScan(s, i + 1, "sq", tok, toks)
                       ELSE IF s[i] = "\"" THEN ShlexScan(s, i + 1, "dq", tok, toks)
                       ELSE IF i = Len(s) THEN [ok |-> FALSE, parts |-> <<>>]
                       ELSE ShlexScan(s, i + 2, "a", Append(tok, s[i + 1]), toks) :
                       q \in {NextIn(s, WhiteSpace \cup {"'", "\"", "\\"}, i)} }) :
        i \in {i0}, tok \in {tok0}, toks \in {toks0} })

shlex_split(s0) == Only({ ShlexScan(s, 1, "ws", <<>>, <<>>) : s \in {s0} })

(***************************************************************************)
(* Safety classifiers                                                      *)
(***************************************************************************)
\* mistral_api_agent_v05: DANGEROUS_COMMANDS
DANGEROUS_COMMANDS_v05 ==
    << <<"r","m">>, <<"m","v">>, <<"d","d">>, <<"m","k","f","s">>, <<"f","d","i","s","k">>, <<">">>, <<"2",">">>,
       <<"t","r","u","n","c","a","t","e">>, <<"r","m","d","i","r">>, <<"p","k","i","l","l">>, <<"k","i","l","l">>,
       <<"s","h","u","t","d","o","w","n">>, <<"r","e","b","o","o","t">>, <<"h","a","l","t">>,
       <<"s","y","s","t","e","m","c","t","l"," ","s","t","o","p">>,
       <<"s","y","s","t","e","m","c","t","l"," ","r","e","s","t","a","r","t">>,
       <<"c","h","o","w","n">>, <<"c","h","m","o","d">>,
       <<"u","s","e","r","d","e","l">>, <<"g","r","o","u","p","d","e","l">>, <<"d","e","l","u","s","e","r">>, <<"p","a","s","s","w","d">>,
       <<"p","a","r","t","e","d">>, <<"l","v","r","e","m","o","v","e">>, <<"v","g","r","e","m","o","v","e">>, <<"p","v","r","e","m","o","v","e">>,
       <<"i","p","t","a","b","l","e","s"," ","-","F">>,
       <<"u","f","w"," ","d","i","s","a","b","l","e">> >>

\* mistral_api_agent_v04: DANGEROUS_COMMANDS, the default of config["dangerous_commands"]
DANGEROUS_COMMANDS_v04 ==
    << <<"r","m">>, <<"m","v">>, <<"d","d">>, <<"m","k","f","s">>, <<"f","d","i","s","k">>, <<">">>, <<"2",">">>,
       <<"t","r","u","n","c","a","t","e">>, <<"r","m","d","i","r">>, <<"p","k","i","l","l">>, <<"k","i","l","l">>,
       <<":","(",")","{",":","|",":","&","}",";",":">> >>

\* the test of the "redirections et pipes dangereux" line, with Python's
\* precedence: A or (B and (C or D))
RedirectOrPipeTest(command) ==
    \/ Contains(command, <<">">>)
    \/ /\ Contains(command, <<"|">>)
       /\ (Contains(command, <<"r","m">>) \/ Contains(command, <<"m","v">>))

\* MistralAgent.is_dangerous_command of v05: "True", "False", or "ValueError"
\* when shlex.split raises
is_dangerous_command_v05(command) ==
    Only({ IF ~sp.ok THEN "ValueError"
           ELSE IF sp.parts = <<>> THEN "False"
           ELSE IF InList(sp.parts[1], DANGEROUS_COMMANDS_v05) THEN "True"
           ELSE IF RedirectOrPipeTest(command) THEN "True"
           ELSE IF sp.parts[1] = <<"r","m">> /\ InList(<<"-","r","f">>, sp.parts) THEN "True"
           ELSE "False" :
           sp \in {shlex_split(command)} })

\* MistralAgent.is_dangerous_command of v04, dangerous being config["dangerous_commands"]
is_dangerous_command_v04(command, dangerous) ==
    Only({ IF ~sp.ok THEN "ValueError"
           ELSE IF sp.parts = <<>> THEN "False"
           ELSE IF InList(sp.parts[1], dangerous) THEN "True"
           ELSE IF RedirectOrPipeTest(command) THEN "True"
           ELSE IF sp.parts[1] = <<"r","m">>
                   /\ (InList(<<"-","r","f">>, sp.parts) \/ InList(<<"-","f","r">>, sp.parts))
                THEN "True"
           ELSE "False" :
           sp \in {IF command = <<>> THEN [ok |-> TRUE, parts |-> <<>>]
                   ELSE shlex_split(command)} })

\* linux_assistant/utils/safety.py: DANGEROUS_COMMANDS, DANGEROUS_OPTIONS, system_paths
SAFETY_DANGEROUS_COMMANDS ==
    << <<"r","m"," ","-","r","f">>, <<"r","m"," ","-","r">>, <<"r","m","d","i","r">>, <<"m","k","f","s">>, <<"d","d">>, <<"s","h","r","e","d">>,
       <<"f","d","i","s","k">>, <<"m","k","f","s">>, <<"f","o","r","m","a","t">>, <<">",">">>, <<">">>, <<"t","r","u","n","c","a","t","e">>,
       <<"d","r","o","p"," ","d","a","t","a","b","a","s","e">>, <<"d","r","o","p"," ","t","a","b","l","e">>, <<"d","e","l","e","t","e"," ","f","r","o","m">>, <<"w","g","e","t">>, <<"c","u","r","l"," ","-","O">> >>

SAFETY_DANGEROUS_OPTIONS ==
    << <<"-","-","f","o","r","c","e">>, <<"-","-","n","o","-","p","r","e","s","e","r","v","e","-","r","o","o","t">>, <<"-","f">>, <<"-","-","d","e","l","e","t","e">> >>

SAFETY_SYSTEM_PATHS ==
    << <<"/","e","t","c","/">>, <<"/","v","a","r","/">>, <<"/","b","o","o","t","/">>, <<"/","l","i","b","/">>, <<"/","b","i","n","/">>, <<"/","s","b","i","n","/">> >>

\* check_command_safety for one command: TRUE when it lands in safe_commands
check_command_safety(command) ==
    LET safe1 == ~\E i \in 1..Len(SAFETY_DANGEROUS_COMMANDS) :
                      Contains(command, SAFETY_DANGEROUS_COMMANDS[i])
        safe2 == safe1 /\ ~\E i \in 1..Len(SAFETY_DANGEROUS_OPTIONS) :
                      Contains(command, SAFETY_DANGEROUS_OPTIONS[i])
        safe3 == IF safe2 /\ (Contains(command, <<">">>) \/ Contains(command, <<">",">">>))
                 THEN ~\E i \in 1..Len(SAFETY_SYSTEM_PATHS) :
                          Contains(command, SAFETY_SYSTEM_PATHS[i])
                 ELSE safe2
    IN  safe3

(***************************************************************************)
(* Classifier check: one command string is drawn and the three classifiers *)
(* are applied to it.                                                      *)
(***************************************************************************)
\* command heads and tails the checked command strings are built from
ClassifyHeads ==
    { <<"r","m">>, <<"l","s">>, <<"e","c","h","o"," ","h","i">>, <<"c","a","t"," ","n","o","t","e","s">>, <<"m","v"," ","a"," ","b">>,
      <<"s","y","s","t","e","m","c","t","l"," ","s","t","o","p"," ","n","g","i","n","x">>, <<"g","r","e","p"," ","p","e","r","m","i","s","s","i","o","n","s"," ","f">>, <<"d","u"," ","-","s","h"," ","/","v","a","r","/","l","o","g">>,
      <<"s","y","s","t","e","m","c","t","l"," ","r","e","s","t","a","r","t"," ","s","s","h","d">>, <<"i","p","t","a","b","l","e","s"," ","-","F">>, <<"u","f","w"," ","d","i","s","a","b","l","e">> }

ClassifyTails ==
    { <<>>, <<" ","-","r","f"," ","/">>, <<" ","-","l","a">>, <<" ",">"," ","/","e","t","c","/","p","a","s","s","w","d">>, <<" ",">"," ","/","t","m","p","/","o","u","t",".","t","x","t">>,
      <<" ",">",">"," ","/","v","a","r","/","l","o","g","/","x">>, <<" ","|"," ","g","r","e","p"," ","p","e","r","m">>, <<" ","|"," ","w","c"," ","-","l">>, <<" ","'","x">> }

ClassifyInputs == {h \o t : h \in ClassifyHeads, t \in ClassifyTails}

NotClassified == [v05 |-> "none", v04 |-> "none", safety |-> "none"]

ClassifyInit ==
    /\ cl_cmd \in ClassifyInputs
    /\ cl_out = NotClassified

\* apply the classifiers of v05, v04 and linux_assistant to the drawn command
Classify ==
    /\ cl_out = NotClassified
    /\ cl_out' = [v05 |-> is_dangerous_command_v05(cl_cmd),
                  v04 |-> is_dangerous_command_v04(cl_cmd, DANGEROUS_COMMANDS_v04),
                  safety |-> IF check_command_safety(cl_cmd) THEN "safe" ELSE "unsafe"]
    /\ UNCHANGED cl_cmd

(***************************************************************************)
(* os.path, over a fixed directory tree                                    *)
(***************************************************************************)
\* the directories that exist (no symbolic links)
Dirs == { <<"/">>, <<"/","a">>, <<"/","a","/","b">>, <<"/","h","o","m","e">>, <<"/","r","o","o","t">> }

\* existing directories the agent's user may not enter: os.chdir raises there
LockedDirs == { <<"/","r","o","o","t">> }

\* the operator's home directory, what os.path.expanduser gives for "~"
HOME == <<"/","h","o","m","e">>

\* s.split("/")
RECURSIVE SplitSlash(_)
SplitSlash(s0) ==
    Only({ Only({ IF i = 0 THEN <<s>>
                  ELSE <<SubSeq(s, 1, i - 1)>> \o SplitSlash(SubSeq(s, i + 1, Len(s))) :
                  i \in {Find(s, <<"/">>, 1)} }) :
           s \in {s0} })

\* os.path.join(a, b)
os_path_join(a, b) ==
    IF StartsWith(b, <<"/">>) THEN b
    ELSE IF a = <<>> \/ a[Len(a)] = "/" THEN a \o b
    ELSE a \o <<"/">> \o b

\* the component loop of posixpath.normpath
RECURSIVE NormComps(_, _, _)
NormComps(comps, new_comps, initial_slashes) ==
    IF comps = <<>> THEN new_comps
    ELSE LET comp == Head(comps) IN
         IF comp = <<>> \/ comp = <<".">> THEN NormComps(Tail(comps), new_comps, initial_slashes)
         ELSE IF \/ comp # <<".",".">>
                 \/ (initial_slashes = 0 /\ new_comps = <<>>)
                 \/ (new_comps # <<>> /\ new_comps[Len(new_comps)] = <<".",".">>)
              THEN NormComps(Tail(comps), Append(new_comps, comp), initial_slashes)
         ELSE IF new_comps # <<>>
              THEN NormComps(Tail(comps), SubSeq(new_comps, 1, Len(new_comps) - 1), initial_slashes)
         ELSE NormComps(Tail(comps), new_comps, initial_slashes)

\* posixpath.normpath(path)
os_path_normpath(path0) ==
    Only({ IF path = <<>> THEN <<".">>
           ELSE Only({ Only({ IF out = <<>> THEN <<".">> ELSE out :
                              out \in {[k \in 1..initial_slashes |-> "/"] \o
                                       Join(NormComps(SplitSlash(path), <<>>, initial_slashes),
                                            <<"/">>)} }) :
                       initial_slashes \in
                           {IF ~StartsWith(path, <<"/">>) THEN 0
                            ELSE IF StartsWith(path, <<"/","/">>) /\ ~StartsWith(path, <<"/","/","/">>)
                                 THEN 2
                            ELSE 1} }) :
           path \in {path0} })

\* os.path.abspath(path); getcwd is the process's directory, which os.chdir
\* keeps equal to current_dir
os_path_abspath(path0, getcwd) ==
    Only({ IF StartsWith(path, <<"/">>) THEN os_path_normpath(path)
           ELSE os_path_normpath(os_path_join(getcwd, path)) :
           path \in {path0} })

\* os.path.expanduser(path) for "~" and "~/..." (no "~user" forms)
os_path_expanduser(path) ==
    IF path = <<"~">> \/ StartsWith(path, <<"~","/">>)
    THEN HOME \o DropFirst(path, 1)
    ELSE path

\* os.path.isdir(path): the kernel reads a leading "//" as "/"
os_path_isdir(path) ==
    (IF StartsWith(path, <<"/","/">>) THEN DropFirst(path, 1) ELSE path) \in Dirs

(***************************************************************************)
(* Execution engine: MistralAgent.execute_command of v04 and v05           *)
(***************************************************************************)
VARIABLES
    version,          \* which agent runs: "v04" or "v05"
    current_dir,      \* self.current_dir
    aliases,          \* v04 self.aliases, v05 self.config["aliases"]: <<[name, value], ...>> in dict order
    command_history,  \* v05 self.config["command_history"]: <<[command, directory], ...>>
    config_file,      \* v05: the command history last written by save_config
    last              \* what the last call of execute_command did (observation)

engineVars == <<version, current_dir, aliases, command_history, config_file, last>>

\* v04: COMMON_ALIASES
COMMON_ALIASES ==
    << [name |-> <<"l","l">>, value |-> <<"l","s"," ","-","l">>],
       [name |-> <<"l","a">>, value |-> <<"l","s"," ","-","l","a">>],
       [name |-> <<"g","r","e","p">>, value |-> <<"g","r","e","p"," ","-","-","c","o","l","o","r","=","a","u","t","o">>],
       [name |-> <<"d","f">>, value |-> <<"d","f"," ","-","h">>],
       [name |-> <<"d","u">>, value |-> <<"d","u"," ","-","h">>],
       [name |-> <<"m","k","d","i","r">>, value |-> <<"m","k","d","i","r"," ","-","p">>],
       [name |-> <<"c","l","s">>, value |-> <<"c","l","e","a","r">>] >>

\* v05: the size config["command_history"] is cut back to
CommandHistoryLimit == 100

\* one event of a call: a confirmation prompt, a subprocess, a directory
\* change, a write of the configuration file, a refresh of the system facts
Event(ev, cmd, cwd) == [ev |-> ev, cmd |-> cmd, cwd |-> cwd]

\* the values execute_command returns
Result(kind, arg) == [kind |-> kind, arg |-> arg]

\* v04: the alias step (lines 536-543); [ok = FALSE] is the IndexError of
\* command.strip().split()[0] on a blank command
ExpandAlias_v04(command, al) ==
    Only({ IF words = <<>> THEN [ok |-> FALSE, command |-> command]
           ELSE Only({ IF hits = {} THEN [ok |-> TRUE, command |-> command]
                       ELSE [ok |-> TRUE,
                             command |-> ReplaceFirst(command, al[Min(hits)].name,
                                                      al[Min(hits)].value)] :
                       hits \in {{i \in 1..Len(al) : al[i].name = words[1]}} }) :
           words \in {SplitWS(Strip(command))} })

\* v05: the alias loop (lines 679-683): the first alias in dict order that is
\* the command or its first word
ExpandAlias_v05(command, al) ==
    Only({ Only({ IF hits = {} THEN [ok |-> TRUE, command |-> command]
                  ELSE [ok |-> TRUE,
                        command |-> ReplaceFirst(command, al[Min(hits)].name,
                                                 al[Min(hits)].value)] :
                  hits \in {{i \in 1..Len(al) :
                                 s = al[i].name \/ StartsWith(s, al[i].name \o <<" ">>)}} }) :
           s \in {Strip(command)} })

\* the target a cd command resolves to: v04 knows "~", v05 does not
CdTarget_v04(command, cwd) ==
    Only({ os_path_abspath(IF StartsWith(target_dir, <<"/">>) THEN target_dir
                           ELSE IF StartsWith(target_dir, <<"~">>)
                                THEN os_path_expanduser(target_dir)
                           ELSE os_path_join(cwd, target_dir),
                           cwd) :
           target_dir \in {Strip(DropFirst(Strip(command), 3))} })

CdTarget_v05(command, cwd) ==
    Only({ os_path_abspath(IF StartsWith(target_dir, <<"/">>) THEN target_dir
                           ELSE os_path_join(cwd, target_dir),
                           cwd) :
           target_dir \in {Strip(DropFirst(Strip(command), 3))} })

CdTarget(ver, command, cwd) ==
    IF ver = "v04" THEN CdTarget_v04(command, cwd) ELSE CdTarget_v05(command, cwd)

\* v05 only: whether the command is recorded in config["command_history"]
RecordsCommand(ver, command) ==
    /\ ver = "v05"
    /\ command \notin { <<"p","w","d">>, <<"c","l","e","a","r">> }
    /\ ~StartsWith(command, <<"l","s">>)

\* the command history after the append and the cut to the last 100
AppendHistory(hist, command, cwd) ==
    Only({ IF Len(h) > CommandHistoryLimit
           THEN SubSeq(h, Len(h) - CommandHistoryLimit + 1, Len(h))
           ELSE h :
           h \in {Append(hist, [command |-> command, directory |-> cwd])} })

\* is_dangerous_command of the running agent
is_dangerous_command(ver, command) ==
    IF ver = "v04" THEN is_dangerous_command_v04(command, DANGEROUS_COMMANDS_v04)
    ELSE is_dangerous_command_v05(command)

\* v05: after a successful command naming a package or service tool the
\* system facts are collected again
RefreshesSystemInfo(ver, command) ==
    /\ ver = "v05"
    /\ \E w \in { <<"a","p","t">>, <<"y","u","m">>, <<"d","n","f">>, <<"s","y","s","t","e","m","c","t","l">>, <<"d","o","c","k","e","r">>, <<"k","u","b","e","c","t","l">> } :
           Contains(command, w)

\* what a call adds to the session state: the command after the alias
\* step, how it was classified, the operator's answer at the prompt, the
\* exception that escaped, the value returned and the events in order
Outcome(st, command, classified, answer, raised, result, events) ==
    st @@ [command |-> command, classified |-> classified, answer |-> answer,
           raised |-> raised, result |-> result, events |-> events]

\* a cd branch that enters the target without looking whether it is a directory
Mut_C25_ExecuteCd(ver, command, st) ==
    Only({ Outcome([st EXCEPT !.current_dir = new_dir], command, "n/a", "not asked",
                   "none", Result("cd_ok", new_dir),
                   <<Event("chdir", command, new_dir)>>) :
           new_dir \in {CdTarget(ver, command, st.current_dir)} })

\* the cd branch of execute_command
ExecuteCd(ver, command, st) ==
    Only({
        IF os_path_isdir(new_dir) THEN
            IF new_dir \in LockedDirs
            THEN Outcome(st, command, "n/a", "not asked", "none",
                         Result("cd_error", new_dir), <<>>)
            ELSE Outcome([st EXCEPT !.current_dir = new_dir], command, "n/a",
                         "not asked", "none", Result("cd_ok", new_dir),
                         <<Event("chdir", command, new_dir)>> \o
                         (IF ver = "v05"
                          THEN <<Event("collect_system_info", command, new_dir)>>
                          ELSE <<>>))
        ELSE Outcome(st, command, "n/a", "not asked", "none",
                     Result("cd_missing", new_dir), <<>>) :
        new_dir \in {CdTarget(ver, command, st.current_dir)} })

\* v05, lines 713-730: the command is appended to config["command_history"]
\* and the configuration is saved, before the command is classified
RecordCommand(ver, command, st) ==
    IF RecordsCommand(ver, command)
    THEN Only({ [st EXCEPT !.command_history = hist, !.config_file = hist] :
                hist \in {AppendHistory(st.command_history, command, st.current_dir)} })
    ELSE st

\* the events up to the save of the configuration
SaveEvents(ver, command, st) ==
    IF RecordsCommand(ver, command)
    THEN <<Event("save_config", command, st.current_dir)>>
    ELSE <<>>

\* the events up to the confirmation gate
GateEvents(ver, command, st, danger) ==
    IF danger = "True"
    THEN Append(SaveEvents(ver, command, st), Event("prompt", command, st.current_dir))
    ELSE SaveEvents(ver, command, st)

\* lines 746-769 (v04 583-603): the subprocess.  It exits with 0, exits
\* with another code, or Popen raises
RunSubprocess(ver, command, st0, st, danger, answer) ==
    { Outcome(st, command, danger, answer, "none", Result("spawn_error", <<>>),
              GateEvents(ver, command, st0, danger)),
      Outcome(st, command, danger, answer, "none", Result("exit_error", <<>>),
              Append(GateEvents(ver, command, st0, danger),
                     Event("spawn", command, st0.current_dir))),
      Outcome(st, command, danger, answer, "none", Result("output", <<>>),
              Append(GateEvents(ver, command, st0, danger),
                     Event("spawn", command, st0.current_dir)) \o
              (IF RefreshesSystemInfo(ver, command)
               THEN <<Event("collect_system_info", command, st0.current_dir)>>
               ELSE <<>>)) }

\* a shell branch that runs the command without classifying it
Mut_C27_ExecuteShell(ver, command, st0) ==
    RunSubprocess(ver, command, st0, RecordCommand(ver, command, st0), "False", "not asked")

\* the rest of execute_command: the command history (v05), the confirmation
\* gate and the subprocess.  The value is the set of ways the call can go,
\* one for each answer of the operator and each fate of the subprocess
ExecuteShell(ver, command, st0) ==
    UNION {
        IF danger = "ValueError"
        THEN { Outcome(st, command, danger, "not asked", "ValueError",
                       Result("raised", <<>>), SaveEvents(ver, command, st0)) }
        ELSE IF danger = "True"
        THEN { Outcome(st, command, danger, "no", "none", Result("cancelled", <<>>),
                       GateEvents(ver, command, st0, danger)) }
             \cup RunSubprocess(ver, command, st0, st, danger, "yes")
        ELSE RunSubprocess(ver, command, st0, st, danger, "not asked") :
        st \in {RecordCommand(ver, command, st0)},
        danger \in {is_dangerous_command(ver, command)} }

\* MistralAgent.execute_command(command).  st holds current_dir, aliases,
\* command_history and config_file; the value is the set of ways the call
\* can go
execute_command(ver, command0, st) ==
    UNION {
        IF ~ex.ok
        THEN { Outcome(st, ex.command, "n/a", "not asked", "IndexError",
                       Result("raised", <<>>), <<>>) }
        ELSE IF StartsWith(Strip(ex.command), <<"c","d"," ">>)
        THEN { ExecuteCd(ver, ex.command, st) }
        ELSE ExecuteShell(ver, ex.command, st) :
        ex \in {IF ver = "v04" THEN ExpandAlias_v04(command0, st.aliases)
                ELSE ExpandAlias_v05(command0, st.aliases)} }

(***************************************************************************)
(* Engine check: execute_command called on drawn commands                  *)
(***************************************************************************)
\* the longest command history a checked session builds
MaxCmdHistory == 1

\* the commands handed to execute_command
EngineCommands ==
    { <<"l","s"," ","-","l","a">>, <<"r","m"," ","-","r","f"," ","/","t","m","p","/","x">>, <<"s","y","s","t","e","m","c","t","l"," ","s","t","o","p"," ","n","g","i","n","x">>, <<"l","l">>,
      <<"e","c","h","o"," ","'","x">>, <<" ">>,
      <<"c","d"," ",".",".">>, <<"c","d"," ","/","a","/","b">>, <<"c","d"," ","/","n","o","n","e","x","i","s","t","e","n","t">>, <<"c","d"," ","~">>, <<"c","d"," ","b">>,
      <<"c","d"," ",".","/","b","/",".",".","/","b">>, <<"c","d"," ","/","r","o","o","t">>, <<"c","d">> }

\* the alias tables a session may start with
AliasConfigs(ver) ==
    IF ver = "v04"
    THEN {COMMON_ALIASES, <<[name |-> <<"l","l">>, value |-> <<"r","m"," ","-","r","f"," ","/","t","m","p","/","x">>]>>}
    ELSE {<<>>, <<[name |-> <<"l","l">>, value |-> <<"l","s"," ","-","l">>]>>,
          <<[name |-> <<"l","l">>, value |-> <<"r","m"," ","-","r","f"," ","/","t","m","p","/","x">>]>>}

NoCall ==
    [input |-> <<>>, command |-> <<>>, cwd_before |-> <<>>, classified |-> "n/a",
     answer |-> "not asked", raised |-> "none", result |-> Result("none", <<>>),
     events |-> <<>>]

EngineInit ==
    /\ version \in {"v04", "v05"}
    /\ current_dir \in Dirs \ LockedDirs
    /\ aliases \in AliasConfigs(version)
    /\ command_history = <<>>
    /\ config_file = <<>>
    /\ last = NoCall

EngineState ==
    [current_dir |-> current_dir, aliases |-> aliases,
     command_history |-> command_history, config_file |-> config_file]

\* the session after a call of execute_command went the way r; cmd is the
\* command as it was handed in
ApplyCall(cmd, r) ==
    /\ Len(r.command_history) <= MaxCmdHistory
    /\ current_dir' = r.current_dir
    /\ command_history' = r.command_history
    /\ config_file' = r.config_file
    /\ last' = [input |-> cmd, command |-> r.command, cwd_before |-> current_dir,
                classified |-> r.classified, answer |-> r.answer,
                raised |-> r.raised, result |-> r.result, events |-> r.events]
    /\ UNCHANGED <<version, aliases>>

\* one call of execute_command
ExecuteCommand ==
    \E cmd \in EngineCommands, st \in {EngineState} :
        \E r \in execute_command(version, cmd, st) : ApplyCall(cmd, r)
(***************************************************************************)
(* Quick commands (v05)                                                    *)
(***************************************************************************)
VARIABLES qc_custom, qc_name, qc_args, qc_out

quickVars == <<qc_custom, qc_name, qc_args, qc_out>>

\* QUICK_COMMANDS, in the order of the dict
QUICK_COMMANDS ==
    <<
      [name |-> <<"s","e","r","v","i","c","e","-","s","t","a","t","u","s">>,
       template |-> <<"s","y","s","t","e","m","c","t","l"," ","s","t","a","t","u","s"," ","{","s","e","r","v","i","c","e","}">>],
      [name |-> <<"s","e","r","v","i","c","e","-","s","t","a","r","t">>,
       template |-> <<"s","y","s","t","e","m","c","t","l"," ","s","t","a","r","t"," ","{","s","e","r","v","i","c","e","}">>],
      [name |-> <<"s","e","r","v","i","c","e","-","s","t","o","p">>,
       template |-> <<"s","y","s","t","e","m","c","t","l"," ","s","t","o","p"," ","{","s","e","r","v","i","c","e","}">>],
      [name |-> <<"s","e","r","v","i","c","e","-","r","e","s","t","a","r","t">>,
       template |-> <<"s","y","s","t","e","m","c","t","l"," ","r","e","s","t","a","r","t"," ","{","s","e","r","v","i","c","e","}">>],
      [name |-> <<"s","e","r","v","i","c","e","-","e","n","a","b","l","e">>,
       template |-> <<"s","y","s","t","e","m","c","t","l"," ","e","n","a","b","l","e"," ","{","s","e","r","v","i","c","e","}">>],
      [name |-> <<"s","e","r","v","i","c","e","-","d","i","s","a","b","l","e">>,
       template |-> <<"s","y","s","t","e","m","c","t","l"," ","d","i","s","a","b","l","e"," ","{","s","e","r","v","i","c","e","}">>],
      [name |-> <<"s","e","r","v","i","c","e","-","l","i","s","t">>,
       template |-> <<"s","y","s","t","e","m","c","t","l"," ","l","i","s","t","-","u","n","i","t","s"," ","-","-","t","y","p","e","=","s","e","r","v","i","c","e">>],
      [name |-> <<"c","p","u","-","i","n","f","o">>,
       template |-> <<"l","s","c","p","u">>],
      [name |-> <<"m","e","m","-","i","n","f","o">>,
       template |-> <<"f","r","e","e"," ","-","h">>],
      [name |-> <<"d","i","s","k","-","u","s","a","g","e">>,
       template |-> <<"d","f"," ","-","h">>],
      [name |-> <<"t","o","p","-","p","r","o","c","e","s","s","e","s">>,
       template |-> <<"p","s"," ","a","u","x"," ","|"," ","s","o","r","t"," ","-","n","r","k"," ","3",",","3"," ","|"," ","h","e","a","d"," ","-","n"," ","1","0">>],
      [name |-> <<"c","h","e","c","k","-","p","o","r","t">>,
       template |-> <<"s","s"," ","-","t","u","l","n"," ","|"," ","g","r","e","p"," ","{","p","o","r","t","}">>],
      [name |-> <<"c","p","u","-","l","o","a","d">>,
       template |-> <<"m","p","s","t","a","t"," ","1"," ","5">>],
      [name |-> <<"i","o","-","s","t","a","t","s">>,
       template |-> <<"i","o","s","t","a","t"," ","-","x","z"," ","1"," ","5">>],
      [name |-> <<"p","i","n","g","-","h","o","s","t">>,
       template |-> <<"p","i","n","g"," ","-","c"," ","4"," ","{","h","o","s","t","}">>],
      [name |-> <<"c","h","e","c","k","-","i","p">>,
       template |-> <<"i","p"," ","a","d","d","r"," ","s","h","o","w">>],
      [name |-> <<"r","o","u","t","e","-","t","a","b","l","e">>,
       template |-> <<"i","p"," ","r","o","u","t","e">>],
      [name |-> <<"d","n","s","-","l","o","o","k","u","p">>,
       template |-> <<"d","i","g"," ","{","d","o","m","a","i","n","}">>],
      [name |-> <<"o","p","e","n","-","p","o","r","t","s">>,
       template |-> <<"n","e","t","s","t","a","t"," ","-","t","u","l","n">>],
      [name |-> <<"t","r","a","c","e","r","o","u","t","e">>,
       template |-> <<"t","r","a","c","e","r","o","u","t","e"," ","{","h","o","s","t","}">>],
      [name |-> <<"d","o","c","k","e","r","-","p","s">>,
       template |-> <<"d","o","c","k","e","r"," ","p","s">>],
      [name |-> <<"d","o","c","k","e","r","-","i","m","a","g","e","s">>,
       template |-> <<"d","o","c","k","e","r"," ","i","m","a","g","e","s">>],
      [name |-> <<"d","o","c","k","e","r","-","s","t","a","t","s">>,
       template |-> <<"d","o","c","k","e","r"," ","s","t","a","t","s"," ","-","-","n","o","-","s","t","r","e","a","m">>],
      [name |-> <<"d","o","c","k","e","r","-","p","r","u","n","e">>,
       template |-> <<"d","o","c","k","e","r"," ","s","y","s","t","e","m"," ","p","r","u","n","e"," ","-","f">>],
      [name |-> <<"k","8","s","-","p","o","d","s">>,
       template |-> <<"k","u","b","e","c","t","l"," ","g","e","t"," ","p","o","d","s">>],
      [name |-> <<"k","8","s","-","n","o","d","e","s">>,
       template |-> <<"k","u","b","e","c","t","l"," ","g","e","t"," ","n","o","d","e","s">>],
      [name |-> <<"k","8","s","-","d","e","p","l","o","y","m","e","n","t","s">>,
       template |-> <<"k","u","b","e","c","t","l"," ","g","e","t"," ","d","e","p","l","o","y","m","e","n","t","s">>],
      [name |-> <<"k","8","s","-","s","e","r","v","i","c","e","s">>,
       template |-> <<"k","u","b","e","c","t","l"," ","g","e","t"," ","s","e","r","v","i","c","e","s">>],
      [name |-> <<"l","o","g","s","-","s","y","s","t","e","m">>,
       template |-> <<"j","o","u","r","n","a","l","c","t","l"," ","-","x","e">>],
      [name |-> <<"l","o","g","s","-","s","e","r","v","i","c","e">>,
       template |-> <<"j","o","u","r","n","a","l","c","t","l"," ","-","u"," ","{","s","e","r","v","i","c","e","}"," ","-","f">>],
      [name |-> <<"l","o","g","s","-","a","u","t","h">>,
       template |-> <<"t","a","i","l"," ","-","n"," ","5","0"," ","/","v","a","r","/","l","o","g","/","a","u","t","h",".","l","o","g">>],
      [name |-> <<"l","o","g","s","-","k","e","r","n","e","l">>,
       template |-> <<"d","m","e","s","g"," ","|"," ","t","a","i","l"," ","-","n"," ","5","0">>],
      [name |-> <<"a","p","t","-","u","p","d","a","t","e">>,
       template |-> <<"s","u","d","o"," ","a","p","t"," ","u","p","d","a","t","e"," ","&","&"," ","s","u","d","o"," ","a","p","t"," ","l","i","s","t"," ","-","-","u","p","g","r","a","d","a","b","l","e">>],
      [name |-> <<"a","p","t","-","u","p","g","r","a","d","e">>,
       template |-> <<"s","u","d","o"," ","a","p","t"," ","u","p","g","r","a","d","e"," ","-","y">>],
      [name |-> <<"p","k","g","-","i","n","s","t","a","l","l","e","d">>,
       template |-> <<"d","p","k","g"," ","-","l"," ","|"," ","g","r","e","p"," ","{","p","a","c","k","a","g","e","}">>],
      [name |-> <<"f","i","n","d","-","l","a","r","g","e","-","f","i","l","e","s">>,
       template |-> <<"f","i","n","d"," ","{","p","a","t","h","}"," ","-","t","y","p","e"," ","f"," ","-","s","i","z","e"," ","+","{","s","i","z","e","}","M"," ","-","e","x","e","c"," ","l","s"," ","-","l","h"," ","{","}"," ","\\",";">>],
      [name |-> <<"t","a","i","l","-","f","i","l","e">>,
       template |-> <<"t","a","i","l"," ","-","f"," ","{","f","i","l","e","}">>],
      [name |-> <<"f","i","n","d","-","m","o","d","i","f","i","e","d">>,
       template |-> <<"f","i","n","d"," ","{","p","a","t","h","}"," ","-","t","y","p","e"," ","f"," ","-","m","t","i","m","e"," ","-","{","d","a","y","s","}"," ","-","l","s">>],
      [name |-> <<"g","i","t","-","s","t","a","t","u","s">>,
       template |-> <<"g","i","t"," ","s","t","a","t","u","s">>],
      [name |-> <<"g","i","t","-","l","o","g">>,
       template |-> <<"g","i","t"," ","l","o","g"," ","-","-","o","n","e","l","i","n","e"," ","-","-","g","r","a","p","h"," ","-","-","d","e","c","o","r","a","t","e"," ","-","n"," ","1","0">>]
    >>

\* key in dict, for a dict held as a sequence of [name, template]
HasKey(table, key) == \E i \in 1..Len(table) : table[i].name = key

\* dict[key]
Lookup(table, key) == table[Min({i \in 1..Len(table) : table[i].name = key})].template

\* the first index >= from at which s holds the character c, 0 when none
IndexOf(s, c, from) == NextIn(s, {c}, from)

\* re.findall(r'\{([^}]+)\}', cmd_template), scanning from index i: a match
\* opens at a "{", holds at least one character other than "}" and closes at
\* the next "}"; the scan resumes after the match
RECURSIVE FindallParams(_, _)
FindallParams(t, i0) ==
    Only({
        IF i = 0 THEN <<>>
        ELSE Only({ IF close = 0 THEN <<>>
                    ELSE IF close = i + 1 THEN FindallParams(t, i + 1)
                    ELSE <<SubSeq(t, i + 1, close - 1)>> \o FindallParams(t, close + 1) :
                    close \in {IndexOf(t, "}", i + 1)} }) :
        i \in {IndexOf(t, "{", i0)} })

\* a check that only notices an empty argument list
Mut_C9_TooFewArgs(args, param_names) == Len(args) = 0 /\ Len(param_names) > 0

\* line 844: too few arguments for the parameters of the template
TooFewArgs(args, param_names) == Len(args) < Len(param_names)

\* lines 848-851: params[name] = args[i] for each i, a later i overwriting
\* an earlier one with the same name
BuildParams(param_names, args) ==
    [name \in {param_names[i] : i \in {i \in 1..Len(param_names) : i <= Len(args)}} |->
        args[Max({i \in 1..Len(param_names) : param_names[i] = name /\ i <= Len(args)})]]

IsDigits(s) ==
    s # <<>> /\ \A i \in 1..Len(s) : s[i] \in {"0", "1", "2", "3", "4", "5", "6", "7", "8", "9"}

\* the first index >= from at which s holds a brace, 0 when none
NextBrace(s, from) == NextIn(s, {"{", "}"}, from)

\* cmd_template.format(**params), scanning from index i with out formatted
\* so far.  Text up to the next brace is copied; "{{" and "}}" are the
\* literal braces; a lone "}" and an unclosed "{" are a ValueError; the field
\* "{}" or "{0}" asks for a positional argument, of which there is none:
\* IndexError; a named field is looked up in params: KeyError when absent.
\* (Field names with "!", ":", "." or "[" occur in no template of the model.)
RECURSIVE FormatScan(_, _, _, _)
FormatScan(t, i, params, out) ==
    Only({
        IF b = 0 THEN [exc |-> "none", value |-> out \o SubSeq(t, i, Len(t))]
        ELSE IF b < Len(t) /\ t[b + 1] = t[b]
        THEN FormatScan(t, b + 2, params, out \o SubSeq(t, i, b))
        ELSE IF t[b] = "}" THEN [exc |-> "ValueError", value |-> <<>>]
        ELSE Only({
                 IF close = 0 THEN [exc |-> "ValueError", value |-> <<>>]
                 ELSE Only({
                          IF field = <<>> \/ IsDigits(field)
                          THEN [exc |-> "IndexError", value |-> <<>>]
                          ELSE IF field \notin DOMAIN params
                          THEN [exc |-> "KeyError", value |-> field]
                          ELSE FormatScan(t, close + 1, params,
                                          out \o SubSeq(t, i, b - 1) \o params[field]) :
                          field \in {SubSeq(t, b + 1, close - 1)} }) :
                 close \in {IndexOf(t, "}", b + 1)} }) :
        b \in {NextBrace(t, i)} })

str_format(t, params) == FormatScan(t, 1, params, <<>>)

\* what execute_quick_command does before it hands a command to
\* execute_command: "unavailable" (unknown name), "needs_params" (the error
\* naming the parameters, names), "key_error" (the error of a KeyError of
\* format), "raised" (another exception of format escapes, exc) or "run" (cmd
\* is handed to execute_command)
QuickResult(kind, names, cmd, exc) ==
    [kind |-> kind, names |-> names, cmd |-> cmd, exc |-> exc]

\* lines 838-859: the command of a template and the arguments
ResolveTemplate(cmd_template, args) ==
    IF Contains(cmd_template, <<"{">>) /\ Contains(cmd_template, <<"}">>)
    THEN Only({
             IF TooFewArgs(args, param_names)
             THEN QuickResult("needs_params", param_names, <<>>, "none")
             ELSE Only({ IF f.exc = "none" THEN QuickResult("run", <<>>, f.value, "none")
                         ELSE IF f.exc = "KeyError"
                         THEN QuickResult("key_error", <<f.value>>, <<>>, "none")
                         ELSE QuickResult("raised", <<>>, <<>>, f.exc) :
                         f \in {str_format(cmd_template, BuildParams(param_names, args))} }) :
             param_names \in {FindallParams(cmd_template, 1)} })
    ELSE QuickResult("run", <<>>, cmd_template, "none")

\* lines 826-859 of execute_quick_command(cmd_name, *args); custom is
\* config["custom_commands"]
execute_quick_command(cmd_name, args, custom) ==
    IF ~HasKey(QUICK_COMMANDS, cmd_name) /\ ~HasKey(custom, cmd_name)
    THEN QuickResult("unavailable", <<>>, <<>>, "none")
    ELSE IF HasKey(custom, cmd_name)
    THEN ResolveTemplate(Lookup(custom, cmd_name), args)
    ELSE ResolveTemplate(Lookup(QUICK_COMMANDS, cmd_name), args)

(***************************************************************************)
(* Quick-command check: one call of execute_quick_command                  *)
(***************************************************************************)
\* the longest argument list handed to a quick command
MaxQuickArgs == 2

\* the values of the arguments
QuickArgValues == { <<"/","v","a","r">>, <<"8","0">> }

QuickArgLists ==
    UNION { [1..n -> QuickArgValues] : n \in 0..MaxQuickArgs }

\* the custom_commands a configuration may hold: none (the default), or two
\* user-defined commands, one of them under the name of a built-in
QuickCustomConfigs ==
    { <<>>,
      << [name |-> <<"b","a","c","k","u","p">>, template |-> <<"c","p"," ","{","f","}"," ","{","f","}",".","b","a","k">>],
         [name |-> <<"d","i","s","k","-","u","s","a","g","e">>, template |-> <<"d","u"," ","-","s","h"," ","{","p","a","t","h","}">>] >> }

\* the names asked for: every built-in, every custom one and an unknown one
QuickNames ==
    {QUICK_COMMANDS[i].name : i \in 1..Len(QUICK_COMMANDS)}
        \cup { <<"b","a","c","k","u","p">>, <<"n","o","-","s","u","c","h","-","c","o","m","m","a","n","d">> }

NotResolved == QuickResult("none", <<>>, <<>>, "none")

QuickInit ==
    /\ qc_custom \in QuickCustomConfigs
    /\ qc_name = <<>>
    /\ qc_args = <<>>
    /\ qc_out = NotResolved

\* one call of execute_quick_command; line 862 hands the resolved command
\* to execute_command
QuickCommand ==
    /\ qc_out = NotResolved
    /\ \E cmd_name \in QuickNames, args \in QuickArgLists, st \in {EngineState} :
           \E q \in {execute_quick_command(cmd_name, args, qc_custom)} :
               /\ qc_name' = cmd_name
               /\ qc_args' = args
               /\ qc_out' = q
               /\ IF q.kind = "run"
                  THEN \E r \in execute_command(version, q.cmd, st) : ApplyCall(q.cmd, r)
                  ELSE UNCHANGED engineVars
               /\ UNCHANGED qc_custom

(***************************************************************************)
(* Conversation history and context snapshots (v04), ContextManager        *)
(***************************************************************************)
VARIABLES prog, conversation_history, max_history, history_file, system_message,
          contexts, saved, turn, op, cm_messages, cm_history_size

histVars ==
    <<prog, conversation_history, max_history, history_file, system_message,
      contexts, saved, turn, op, cm_messages, cm_history_size>>

\* mistral_api_agent_v04: MAX_HISTORY_ENTRIES, the default of config["max_history"]
MAX_HISTORY_ENTRIES_v04 == 50

\* agent_admin: the default of behavior.history_size
DEFAULT_HISTORY_SIZE == 100

\* list[-n:], which for n = 0 is the whole list
LastN(list, n) ==
    IF n = 0 \/ n >= Len(list) THEN list
    ELSE SubSeq(list, Len(list) - n + 1, Len(list))

\* json.dump(..., ensure_ascii=False) of one character of a string
JsonEscapeChar(c) ==
    CASE c = "\"" -> <<"\\", "\"">>
      [] c = "\\" -> <<"\\", "\\">>
      [] c = "\n" -> <<"\\", "n">>
      [] c = "\t" -> <<"\\", "t">>
      [] OTHER -> <<c>>

\* the JSON text of a string
RECURSIVE JsonEscape(_)
JsonEscape(s) ==
    IF s = <<>> THEN <<>> ELSE JsonEscapeChar(Head(s)) \o JsonEscape(Tail(s))

json_dumps_str(s) == <<"\"">> \o JsonEscape(s) \o <<"\"">>

\* the string of the JSON text between the quotes, from index i
RECURSIVE JsonUnescape(_, _)
JsonUnescape(text, i) ==
    IF i > Len(text) THEN <<>>
    ELSE IF text[i] = "\\" /\ i < Len(text)
    THEN (CASE text[i + 1] = "n" -> <<"\n">>
            [] text[i + 1] = "t" -> <<"\t">>
            [] OTHER -> <<text[i + 1]>>) \o JsonUnescape(text, i + 2)
    ELSE <<text[i]>> \o JsonUnescape(text, i + 1)

\* json.load of the JSON text of a string
json_loads_str(text) == JsonUnescape(SubSeq(text, 2, Len(text) - 1), 1)

\* a message of the conversation
Message(role, content) == [role |-> role, content |-> content]

\* the JSON text of the history: a list of objects with role and content
json_dumps_history(history) ==
    [i \in 1..Len(history) |->
        [role |-> json_dumps_str(history[i].role),
         content |-> json_dumps_str(history[i].content)]]

json_loads_history(data) ==
    [i \in 1..Len(data) |->
        Message(json_loads_str(data[i].role), json_loads_str(data[i].content))]

\* a file that does not exist
NoFile == [exists |-> FALSE, data |-> <<>>]

\* save_history: HISTORY_FILE rewritten with the conversation history
save_history(history) == [exists |-> TRUE, data |-> json_dumps_history(history)]

\* load_history: the history of HISTORY_FILE, cut to its last max_history
\* messages; no file leaves the history empty
load_history(file, max) ==
    IF ~file.exists THEN <<>>
    ELSE Only({ IF Len(h) > max THEN LastN(h, max) ELSE h :
                h \in {json_loads_history(file.data)} })

\* call_mistral_api, lines 698-710: on a successful response the user
\* message and the reply are appended and the history is cut to its last
\* 2 * max_history messages; on a failure the history is left alone
call_mistral_api(history, user_message, response, max_entries) ==
    IF ~response.ok THEN history
    ELSE Only({ IF Len(h) > max_entries * 2 THEN LastN(h, max_entries * 2) ELSE h :
                h \in {history \o <<Message(<<"u","s","e","r">>, user_message),
                                    Message(<<"a","s","s","i","s","t","a","n","t">>, response.content)>>} })

\* ContextManager.add_message, lines 53-63 (the timestamp left out)
add_message(messages, role, content, history_size) ==
    Only({ IF Len(m) > history_size THEN LastN(m, history_size) ELSE m :
           m \in {Append(messages, Message(role, content))} })

\* save_context, lines 416-436: the entry written under the name (the
\* timestamp left out)
json_dumps_context(history, dir, sysmsg) ==
    [history |-> json_dumps_history(history),
     current_dir |-> json_dumps_str(dir),
     system_message |-> json_dumps_str(sysmsg)]

\* dict[key] = value
SetKey(dict, key, value) ==
    [k \in DOMAIN dict \cup {key} |-> IF k = key THEN value ELSE dict[k]]

\* a save_context that writes the new entry alone
Mut_C22_save_context(file, name, history, dir, sysmsg) ==
    [exists |-> TRUE,
     data |-> SetKey(<<>>, name, json_dumps_context(history, dir, sysmsg))]

\* save_context(name): CONTEXT_FILE with the entry of the name replaced
save_context(file, name, history, dir, sysmsg) ==
    [exists |-> TRUE,
     data |-> SetKey(file.data, name, json_dumps_context(history, dir, sysmsg))]

\* os.getcwd() of the agent's process, the directory it was started in
PROCESS_CWD == <<"/">>

\* a load_context that leaves the system message of the session in place
Mut_C8_load_context(file, name, history, dir, sysmsg) ==
    IF ~file.exists \/ name \notin DOMAIN file.data
    THEN [ok |-> FALSE, history |-> history, current_dir |-> dir,
          system_message |-> sysmsg]
    ELSE [ok |-> TRUE,
          history |-> json_loads_history(file.data[name].history),
          current_dir |-> json_loads_str(file.data[name].current_dir),
          system_message |-> sysmsg]

\* json.load of CONTEXT_FILE raises: the text of the file is no JSON
Unreadable(file) == "unreadable" \in DOMAIN file

\* load_context(name): [ok, history, current_dir, system_message]; without
\* the file or the name nothing is replaced; a saved directory that is no
\* longer a directory is replaced by the process's own (lines 459-460).
\* The three attributes are assigned one after the other inside the try
\* (lines 454-456): a key the entry lacks raises KeyError at its line, with
\* the attributes of the lines before already assigned, and the except
\* returns False
load_context(file, name, history, dir, sysmsg) ==
    IF ~file.exists \/ Unreadable(file) \/ name \notin DOMAIN file.data
    THEN [ok |-> FALSE, history |-> history, current_dir |-> dir,
          system_message |-> sysmsg]
    ELSE IF "history" \notin DOMAIN file.data[name]
    THEN [ok |-> FALSE, history |-> history, current_dir |-> dir,
          system_message |-> sysmsg]
    ELSE IF "current_dir" \notin DOMAIN file.data[name]
    THEN [ok |-> FALSE,
          history |-> json_loads_history(file.data[name].history),
          current_dir |-> dir,
          system_message |-> sysmsg]
    ELSE IF "system_message" \notin DOMAIN file.data[name]
    THEN [ok |-> FALSE,
          history |-> json_loads_history(file.data[name].history),
          current_dir |-> json_loads_str(file.data[name].current_dir),
          system_message |-> sysmsg]
    ELSE [ok |-> TRUE,
          history |-> json_loads_history(file.data[name].history),
          current_dir |-> Only({ IF os_path_isdir(d) THEN d ELSE PROCESS_CWD :
                                 d \in {json_loads_str(file.data[name].current_dir)} }),
          system_message |-> json_loads_str(file.data[name].system_message)]

(***************************************************************************)
(* History and snapshot checks: the operations of a session                *)
(***************************************************************************)
\* the successful turns of a checked session
MaxTurns == 3

\* the successful turns of a checked session with snapshots
MaxCtxTurns == 2

\* the largest max_history (history_size) the operator configures
MaxHistory == 2

\* the text of the k-th operator message
UserContent(k) == <<"q", ToString(k)>>

\* the text of the k-th reply: with a quote, a backslash or a line break
AssistantContent(k) ==
    CASE k % 3 = 1 -> <<"\"", "r", "\"", ToString(k)>>
      [] k % 3 = 2 -> <<"r", "\\", ToString(k)>>
      [] OTHER -> <<"r", "\n", "é", ToString(k)>>

\* the system messages: the default one and the one set-prompt gives
DefaultPrompt == <<"b","e"," ","\"","b","r","i","e","f","\"">>
NewPrompt == <<"p","\\","1">>

\* the snapshot names
ContextNames == { <<"d","e","f","a","u","l","t">>, <<"t","i","c","k","e","t","4","2">> }

\* the last operation of the session, when it is a turn, an add_message or
\* a snapshot operation: its name, its argument and whether it succeeded
Op(name, arg, ok) == [name |-> name, arg |-> arg, ok |-> ok]

\* any other operation, and the start of the session
OtherOp == Op("other", <<>>, TRUE)

\* the run loop, lines 1419-1429: a turn.  The model answers (a reply
\* without directives) or the call fails; the history is saved either way
TurnWithin(bound) ==
    /\ prog = "v04"
    /\ turn < bound
    /\ \E ok \in BOOLEAN :
           \E h \in {call_mistral_api(conversation_history, UserContent(turn + 1),
                                      [ok |-> ok, content |-> AssistantContent(turn + 1)],
                                      max_history)} :
               /\ conversation_history' = h
               /\ history_file' = save_history(h)
               /\ op' = Op("turn", <<>>, ok)
               /\ turn' = IF ok THEN turn + 1 ELSE turn
    /\ UNCHANGED <<prog, max_history, system_message, contexts, saved,
                   cm_messages, cm_history_size>>

Turn == TurnWithin(MaxTurns)

CtxTurn == TurnWithin(MaxCtxTurns)

\* "config set max_history n", lines 1055-1080
ConfigSetMaxHistory ==
    /\ prog = "v04"
    /\ \E n \in 0..MaxHistory :
           /\ max_history' = n
           /\ op' = OtherOp
    /\ UNCHANGED <<prog, conversation_history, history_file, system_message,
                   contexts, saved, turn, cm_messages, cm_history_size>>

\* "exit" (lines 1389-1392: the history and the configuration are saved)
\* and a new start (line 255: load_history)
Restart ==
    /\ prog = "v04"
    /\ history_file' = save_history(conversation_history)
    /\ conversation_history' = load_history(save_history(conversation_history), max_history)
    /\ op' = OtherOp
    /\ UNCHANGED <<prog, max_history, system_message, contexts, saved, turn,
                   cm_messages, cm_history_size>>

\* "history clear", lines 1274-1287, the operator confirming
HistoryClear ==
    /\ prog = "v04"
    /\ conversation_history # <<>>
    /\ conversation_history' = <<>>
    /\ history_file' = save_history(<<>>)
    /\ op' = OtherOp
    /\ UNCHANGED <<prog, max_history, system_message, contexts, saved, turn,
                   cm_messages, cm_history_size>>

\* ContextManager.add_message(role, content)
AddMessage ==
    /\ prog = "context_manager"
    /\ turn < 2 * MaxTurns
    /\ \E role \in { <<"u","s","e","r">>, <<"a","s","s","i","s","t","a","n","t">> } :
           cm_messages' = add_message(cm_messages, role, UserContent(turn + 1),
                                      cm_history_size)
    /\ turn' = turn + 1
    /\ op' = Op("add_message", <<>>, TRUE)
    /\ UNCHANGED <<prog, conversation_history, max_history, history_file,
                   system_message, contexts, saved, cm_history_size>>

\* "save-context name", lines 982-997: the write succeeds or fails
SaveContext ==
    /\ prog = "v04"
    /\ \E name \in ContextNames, ok \in BOOLEAN :
           /\ op' = Op("save_context", name, ok)
           /\ IF ok
              THEN /\ contexts' = save_context(contexts, name, conversation_history,
                                               current_dir, system_message)
                   /\ saved' = SetKey(saved, name,
                                      [history |-> conversation_history,
                                       current_dir |-> current_dir,
                                       system_message |-> system_message])
              ELSE UNCHANGED <<contexts, saved>>
    /\ UNCHANGED <<prog, conversation_history, max_history, history_file,
                   system_message, turn, cm_messages, cm_history_size>>
    /\ UNCHANGED engineVars

\* "load-context name", lines 1000-1015
LoadContext ==
    /\ prog = "v04"
    /\ \E name \in ContextNames :
           \E r \in {load_context(contexts, name, conversation_history, current_dir,
                                  system_message)} :
               /\ op' = Op("load_context", name, r.ok)
               /\ conversation_history' = r.history
               /\ current_dir' = r.current_dir
               /\ system_message' = r.system_message
    /\ UNCHANGED <<prog, max_history, history_file, contexts, saved, turn,
                   cm_messages, cm_history_size>>
    /\ UNCHANGED <<version, aliases, command_history, config_file, last>>

\* the keys load_context reads in an entry
ContextKeys == {"history", "current_dir", "system_message"}

\* CONTEXT_FILE is whole: readable, every entry with the three keys
StoreWhole(file) ==
    /\ ~Unreadable(file)
    /\ \A n \in DOMAIN file.data : ContextKeys \subseteq DOMAIN file.data[n]

\* CONTEXT_FILE changed from outside the session (an edit by hand, a file
\* of another format, a write cut short): an entry loses a key, or the text
\* is no JSON any more
DamageStore ==
    /\ prog = "v04"
    /\ contexts.exists
    /\ StoreWhole(contexts)
    /\ \/ \E n \in DOMAIN contexts.data, key \in ContextKeys :
              contexts' = [contexts EXCEPT !.data[n] =
                              [k \in DOMAIN @ \ {key} |-> @[k]]]
       \/ contexts' = [exists |-> TRUE, data |-> contexts.data, unreadable |-> TRUE]
    /\ op' = OtherOp
    /\ UNCHANGED <<prog, conversation_history, max_history, history_file,
                   system_message, saved, turn, cm_messages, cm_history_size>>
    /\ UNCHANGED engineVars

\* "save-context name" while CONTEXT_FILE may be unreadable: json.load
\* raises inside the try of save_context and nothing is written
SaveContextIfReadable ==
    /\ SaveContext
    /\ Unreadable(contexts) => ~op'.ok

\* the cd commands of the operator
CdCommands == { <<"c","d"," ","/","a">>, <<"c","d"," ",".",".">> }

\* "cd path", lines 1402-1409: handed to execute_command
OperatorCd ==
    /\ prog = "v04"
    /\ \E cmd \in CdCommands, st \in {EngineState} :
           \E r \in execute_command(version, cmd, st) :
               /\ current_dir' = r.current_dir
               /\ op' = OtherOp
    /\ UNCHANGED <<prog, conversation_history, max_history, history_file,
                   system_message, contexts, saved, turn, cm_messages, cm_history_size>>
    /\ UNCHANGED <<version, aliases, command_history, config_file, last>>

\* "set-prompt text", lines 938-957, the prompt file written
SetPrompt ==
    /\ prog = "v04"
    /\ \E p \in {DefaultPrompt, NewPrompt} :
           /\ system_message' = p
           /\ op' = OtherOp
    /\ UNCHANGED <<prog, conversation_history, max_history, history_file,
                   contexts, saved, turn, cm_messages, cm_history_size>>

\* a session of v04 at its first start, or a ContextManager
HistInit ==
    /\ prog \in {"v04", "context_manager"}
    /\ conversation_history = <<>>
    /\ max_history = MAX_HISTORY_ENTRIES_v04
    /\ history_file = NoFile
    /\ system_message = DefaultPrompt
    /\ contexts = NoFile
    /\ saved = <<>>
    /\ turn = 0
    /\ op = OtherOp
    /\ cm_messages = <<>>
    /\ cm_history_size \in IF prog = "v04" THEN {DEFAULT_HISTORY_SIZE}
                           ELSE 0..MaxHistory

\* a session of v04 at its first start, in the root directory
CtxInit ==
    /\ prog = "v04"
    /\ conversation_history = <<>>
    /\ max_history = MAX_HISTORY_ENTRIES_v04
    /\ history_file = NoFile
    /\ system_message = DefaultPrompt
    /\ contexts = NoFile
    /\ saved = <<>>
    /\ turn = 0
    /\ op = OtherOp
    /\ cm_messages = <<>>
    /\ cm_history_size = DEFAULT_HISTORY_SIZE
    /\ version = "v04"
    /\ current_dir = <<"/">>
    /\ aliases = COMMON_ALIASES
    /\ command_history = <<>>
    /\ config_file = <<>>
    /\ last = NoCall

(***************************************************************************)
(* process_response: the directives of a model response.  Each of the five *)
(* patterns is searched on its own over the whole response with            *)
(* re.finditer(pattern, response, re.DOTALL).                              *)
(***************************************************************************)
VARIABLES rp_response, rp_dir0, rp_auto, rp_trace, rp_raised, rp_done, rp_clean

respVars == <<rp_response, rp_dir0, rp_auto, rp_trace, rp_raised, rp_done, rp_clean>>

\* the characters \w matches among those of the checked responses
WordChars ==
    {"a", "b", "c", "d", "e", "f", "g", "h", "i", "j", "k", "l", "m", "n", "o",
     "p", "q", "r", "s", "t", "u", "v", "w", "x", "y", "z",
     "A", "B", "C", "D", "E", "F", "G", "H", "I", "J", "K", "L", "M", "N", "O",
     "P", "Q", "R", "S", "T", "U", "V", "W", "X", "Y", "Z",
     "0", "1", "2", "3", "4", "5", "6", "7", "8", "9", "_"}

\* the end of the run of characters of chars that starts at from: the first
\* index >= from whose character is outside chars, Len(s) + 1 when none
RunEnd(s, chars, from) ==
    Min({i \in from..(Len(s) + 1) : i = Len(s) + 1 \/ s[i] \notin chars})

\* a match of one of the patterns: the span is start..(end - 1)
Match(start, end, g1, g2, g3) ==
    [ok |-> TRUE, start |-> start, end |-> end, g1 |-> g1, g2 |-> g2, g3 |-> g3]

NoMatch == [ok |-> FALSE, start |-> 0, end |-> 0, g1 |-> <<>>, g2 |-> <<>>, g3 |-> <<>>]

\* "\[TAG\s+(\w+)" at i: [ok, word, next]; the greedy runs need no
\* backtracking, a shorter \s+ or \w+ is followed by a character of the run
TagHead(s, tag, i) ==
    IF ~StartsWithAt(s, <<"[">> \o tag, i)
    THEN [ok |-> FALSE, word |-> <<>>, next |-> 0]
    ELSE Only({ Only({ IF k = i + Len(tag) + 1 \/ m = k
                       THEN [ok |-> FALSE, word |-> <<>>, next |-> 0]
                       ELSE [ok |-> TRUE, word |-> SubSeq(s, k, m - 1), next |-> m] :
                       m \in {RunEnd(s, WordChars, k)} }) :
                k \in {RunEnd(s, WhiteSpace, i + Len(tag) + 1)} })

\* "\s+([^\]]+)\]" at m: [ok, group, end].  The group runs to the next "]";
\* when the whitespace reaches the "]" the group takes its last character
TagArg(s, m) ==
    Only({ Only({ IF k = m \/ close = 0 THEN [ok |-> FALSE, group |-> <<>>, end |-> 0]
                  ELSE IF close > k
                  THEN [ok |-> TRUE, group |-> SubSeq(s, k, close - 1), end |-> close + 1]
                  ELSE IF k - m >= 2
                  THEN [ok |-> TRUE, group |-> <<s[k - 1]>>, end |-> close + 1]
                  ELSE [ok |-> FALSE, group |-> <<>>, end |-> 0] :
                  close \in {NextIn(s, {"]"}, k)} }) :
           k \in {RunEnd(s, WhiteSpace, m)} })

\* exec_pattern r"\[EXEC\](.*?)\[\/EXEC\]" at i: the body runs to the first
\* closing tag
MatchExec(s, i) ==
    IF ~StartsWithAt(s, <<"[","E","X","E","C","]">>, i) THEN NoMatch
    ELSE Only({ IF close = 0 THEN NoMatch
                ELSE Match(i, close + 7, SubSeq(s, i + 6, close - 1), <<>>, <<>>) :
                close \in {Find(s, <<"[","/","E","X","E","C","]">>, i + 6)} })

\* script_pattern r"\[SCRIPT\s+(\w+)\s+([^\]]+)\](.*?)\[\/SCRIPT\]" at i
MatchScript(s, i) ==
    Only({ IF ~h.ok THEN NoMatch
           ELSE Only({ IF ~a.ok THEN NoMatch
                       ELSE Only({ IF close = 0 THEN NoMatch
                                   ELSE Match(i, close + 9, h.word, a.group,
                                              SubSeq(s, a.end, close - 1)) :
                                   close \in {Find(s, <<"[","/","S","C","R","I","P","T","]">>, a.end)} }) :
                       a \in {TagArg(s, h.next)} }) :
           h \in {TagHead(s, <<"S","C","R","I","P","T">>, i)} })

\* template_pattern r"\[TEMPLATE\s+(\w+)\s+([^\]]+)\]" at i
MatchTemplate(s, i) ==
    Only({ IF ~h.ok THEN NoMatch
           ELSE Only({ IF ~a.ok THEN NoMatch
                       ELSE Match(i, a.end, h.word, a.group, <<>>) :
                       a \in {TagArg(s, h.next)} }) :
           h \in {TagHead(s, <<"T","E","M","P","L","A","T","E">>, i)} })

\* r"\[TAG\s+(\w+)(?:\s+([^\]]+))?\]" at i, the shape of quickcmd_pattern
\* and devops_pattern: the optional group is tried first; without it the
\* "]" has to follow the word.  g2 = <<>> stands for the None of a group
\* that took no part
MatchOptArg(s, tag, i) ==
    Only({ IF ~h.ok THEN NoMatch
           ELSE Only({ IF a.ok THEN Match(i, a.end, h.word, a.group, <<>>)
                       ELSE IF h.next <= Len(s) /\ s[h.next] = "]"
                       THEN Match(i, h.next + 1, h.word, <<>>, <<>>)
                       ELSE NoMatch :
                       a \in {TagArg(s, h.next)} }) :
           h \in {TagHead(s, tag, i)} })

\* the match of the pattern of a kind at i
MatchAt(kind, s, i) ==
    CASE kind = "EXEC" -> MatchExec(s, i)
      [] kind = "SCRIPT" -> MatchScript(s, i)
      [] kind = "TEMPLATE" -> MatchTemplate(s, i)
      [] kind = "QUICKCMD" -> MatchOptArg(s, <<"Q","U","I","C","K","C","M","D">>, i)
      [] kind = "DEVOPS" -> MatchOptArg(s, <<"D","E","V","O","P","S">>, i)

\* the next match re.finditer yields: the leftmost one that starts at from
\* or later
FindMatch(kind, s, from) ==
    Only({ IF starts = {} THEN NoMatch ELSE MatchAt(kind, s, Min(starts)) :
           starts \in {{i \in from..Len(s) : s[i] = "[" /\ MatchAt(kind, s, i).ok}} })

\* str.lower() on the letters of the checked responses
LowerChar(c) ==
    CASE c = "A" -> "a" [] c = "B" -> "b" [] c = "C" -> "c" [] c = "D" -> "d"
      [] c = "E" -> "e" [] c = "F" -> "f" [] c = "G" -> "g" [] c = "H" -> "h"
      [] c = "I" -> "i" [] c = "J" -> "j" [] c = "K" -> "k" [] c = "L" -> "l"
      [] c = "M" -> "m" [] c = "N" -> "n" [] c = "O" -> "o" [] c = "P" -> "p"
      [] c = "Q" -> "q" [] c = "R" -> "r" [] c = "S" -> "s" [] c = "T" -> "t"
      [] c = "U" -> "u" [] c = "V" -> "v" [] c = "W" -> "w" [] c = "X" -> "x"
      [] c = "Y" -> "y" [] c = "Z" -> "z" [] OTHER -> c

Lower(s) == [i \in 1..Len(s) |-> LowerChar(s[i])]

\* v05 SCRIPT_EXTENSIONS; the first 19 entries are the table of v04's
\* save_script
SCRIPT_EXTENSIONS ==
    << [name |-> <<"p","y","t","h","o","n">>, value |-> <<".","p","y">>],
       [name |-> <<"b","a","s","h">>, value |-> <<".","s","h">>],
       [name |-> <<"s","h","e","l","l">>, value |-> <<".","s","h">>],
       [name |-> <<"y","a","m","l">>, value |-> <<".","y","a","m","l">>],
       [name |-> <<"y","m","l">>, value |-> <<".","y","m","l">>],
       [name |-> <<"d","o","c","k","e","r">>, value |-> <<".","d","o","c","k","e","r","f","i","l","e">>],
       [name |-> <<"d","o","c","k","e","r","f","i","l","e">>, value |-> <<".","d","o","c","k","e","r","f","i","l","e">>],
       [name |-> <<"t","e","r","r","a","f","o","r","m">>, value |-> <<".","t","f">>],
       [name |-> <<"j","s","o","n">>, value |-> <<".","j","s","o","n">>],
       [name |-> <<"j","s">>, value |-> <<".","j","s">>],
       [name |-> <<"a","n","s","i","b","l","e">>, value |-> <<".","y","m","l">>],
       [name |-> <<"p","h","p">>, value |-> <<".","p","h","p">>],
       [name |-> <<"r","u","b","y">>, value |-> <<".","r","b">>],
       [name |-> <<"g","o">>, value |-> <<".","g","o">>],
       [name |-> <<"j","a","v","a">>, value |-> <<".","j","a","v","a">>],
       [name |-> <<"c">>, value |-> <<".","c">>],
       [name |-> <<"c","p","p">>, value |-> <<".","c","p","p">>],
       [name |-> <<"c","s","h","a","r","p">>, value |-> <<".","c","s">>],
       [name |-> <<"s","q","l">>, value |-> <<".","s","q","l">>],
       [name |-> <<"k","u","b","e","r","n","e","t","e","s">>, value |-> <<".","y","a","m","l">>],
       [name |-> <<"k","8","s">>, value |-> <<".","y","a","m","l">>],
       [name |-> <<"h","e","l","m">>, value |-> <<".","y","a","m","l">>],
       [name |-> <<"n","g","i","n","x">>, value |-> <<".","c","o","n","f">>],
       [name |-> <<"a","p","a","c","h","e">>, value |-> <<".","c","o","n","f">>],
       [name |-> <<"s","y","s","t","e","m","d">>, value |-> <<".","s","e","r","v","i","c","e">>],
       [name |-> <<"p","r","o","m","e","t","h","e","u","s">>, value |-> <<".","y","m","l">>],
       [name |-> <<"g","r","a","f","a","n","a">>, value |-> <<".","j","s","o","n">>],
       [name |-> <<"j","e","n","k","i","n","s">>, value |-> <<"J","e","n","k","i","n","s","f","i","l","e">>],
       [name |-> <<"g","i","t","l","a","b","-","c","i">>, value |-> <<".","g","i","t","l","a","b","-","c","i",".","y","m","l">>],
       [name |-> <<"g","i","t","h","u","b","-","w","o","r","k","f","l","o","w">>, value |-> <<".","y","m","l">>] >>

ScriptExtensions(ver) ==
    IF ver = "v04" THEN SubSeq(SCRIPT_EXTENSIONS, 1, 19) ELSE SCRIPT_EXTENSIONS

\* the keys of TEMPLATES
TEMPLATE_NAMES == { <<"d","o","c","k","e","r">>, <<"t","e","r","r","a","f","o","r","m">>, <<"k","u","b","e","r","n","e","t","e","s">>, <<"a","n","s","i","b","l","e">> }

\* SCRIPTS_DIR, "~/tech/scripts" expanded
SCRIPTS_DIR == os_path_expanduser(<<"~","/","t","e","c","h","/","s","c","r","i","p","t","s">>)

\* the filename with the extension of its type, unless it holds a "."
WithExtension(table, type, filename) ==
    IF ~Contains(filename, <<".">>) /\ HasKey(table, type)
    THEN filename \o table[Min({i \in 1..Len(table) : table[i].name = type})].value
    ELSE filename

\* str(e) of the OSError of a file that cannot be written
WriteError == <<"[","E","r","r","n","o"," ","1","3","]"," ","P","e","r","m","i","s","s","i","o","n"," ","d","e","n","i","e","d">>

\* save_script(script_type, filename, content): the ways it can go, with
\* the file written (none when the write fails) and the value returned, the
\* path of the script or the text of the error
save_script(ver, script_type, filename) ==
    Only({ { [path |-> filepath, value |-> filepath],
             [path |-> <<>>, value |-> <<"E","r","r","e","u","r"," ","l","o","r","s"," ","d","e"," ","l","a"," ","s","a","u","v","e","g","a","r","d","e",":"," ">> \o WriteError] } :
           filepath \in {os_path_join(SCRIPTS_DIR,
                                      WithExtension(ScriptExtensions(ver), Lower(script_type),
                                                    filename))} })

\* whether the operator is asked to run the script just saved
AsksToRun(ver, script_type, auto_execute_scripts) ==
    IF ver = "v04"
    THEN Lower(script_type) \in { <<"b","a","s","h">>, <<"s","h","e","l","l">>, <<"p","y","t","h","o","n">> } /\ auto_execute_scripts
    ELSE Lower(script_type) \in { <<"b","a","s","h">>, <<"s","h","e","l","l">>, <<"p","y","t","h","o","n">>, <<"s","h">>, <<"p","y">> }

\* the command that runs a saved script
ScriptCommand(ver, script_type, filepath) ==
    IF Lower(script_type) \in (IF ver = "v04" THEN { <<"p","y","t","h","o","n">> }
                               ELSE { <<"p","y","t","h","o","n">>, <<"p","y">> })
    THEN <<"p","y","t","h","o","n","3"," ">> \o filepath
    ELSE filepath

\* create_from_template(template_type, filename) in the directory cwd: the
\* ways it can go, with the path of the file it writes
create_from_template(template_type, filename, cwd) ==
    IF Lower(template_type) \notin TEMPLATE_NAMES
    THEN { [note |-> "no_template", path |-> <<>>] }
    ELSE { [note |-> "created",
            path |-> os_path_join(cwd, WithExtension(SCRIPT_EXTENSIONS,
                                                     Lower(template_type), filename))],
           [note |-> "write_error", path |-> <<>>] }

\* int(text) succeeds: an optional sign and digits
IsInt(text) ==
    /\ text # <<>>
    /\ IsDigits(IF text[1] \in {"+", "-"} THEN Tail(text) ELSE text)

\* execute_devops_tool(tool_name, *args): the ways it can go.  Every
\* exception is caught, the value is always a text
execute_devops_tool(tool_name, args) ==
    IF tool_name = <<"m","o","n","i","t","o","r","_","r","e","s","s","o","u","r","c","e","s">>
    THEN IF args = <<>> \/ IsInt(args[1]) THEN {"tool_ran", "tool_error"}
         ELSE {"tool_error"}
    ELSE IF tool_name \in { <<"a","n","a","l","y","z","e","_","l","o","g","s">>, <<"n","e","t","w","o","r","k","_","s","c","a","n">>, <<"g","e","n","e","r","a","t","e","_","s","s","l","_","c","e","r","t">> }
    THEN IF args = <<>> THEN {"usage_error"}
         ELSE IF tool_name = <<"a","n","a","l","y","z","e","_","l","o","g","s">> /\ Len(args) > 2
                 /\ StartsWith(args[3], <<"t","a","i","l","=">>)
                 /\ ~IsInt(Only({ IF e = 0 THEN DropFirst(args[3], 5)
                                  ELSE SubSeq(args[3], 6, e - 1) :
                                  e \in {NextIn(args[3], {"="}, 6)} }))
         THEN {"usage_error"}
         ELSE {"tool_ran", "tool_error"}
    ELSE IF tool_name \in { <<"d","o","c","k","e","r","_","i","n","f","o">>, <<"k","8","s","_","i","n","f","o">> }
    THEN {"tool_ran", "tool_error"}
    ELSE {"unknown_tool"}

\* the session state execute_command works on, after a call went the way r
StateOf(r) ==
    [current_dir |-> r.current_dir, aliases |-> r.aliases,
     command_history |-> r.command_history, config_file |-> r.config_file]

\* what process_response did for one match: the kind and the span of the
\* directive, the working directory in force when it acted and after it,
\* the command handed to execute_command, the file written
Entry(kind, m, cwd, dir_after, cmd, path, note) ==
    [kind |-> kind, start |-> m.start, end |-> m.end, cwd |-> cwd,
     dir_after |-> dir_after, cmd |-> cmd, path |-> path, note |-> note]

\* a run of process_response so far: the session, the directives acted on
\* in the order of the actions, the exception that ended it
Run(st, trace, raised) == [st |-> st, trace |-> trace, raised |-> raised]

\* the run after execute_command(cmd) for the match m went the way r
AfterCommand(kind, m, rs, r, path) ==
    Run(StateOf(r),
        Append(rs.trace, Entry(kind, m, rs.st.current_dir, r.current_dir, r.command,
                               path, r.result.kind)),
        r.raised)

\* the run after an action for the match m that ran no command
AfterNote(kind, m, rs, path, note) ==
    Run(rs.st,
        Append(rs.trace, Entry(kind, m, rs.st.current_dir, rs.st.current_dir, <<>>,
                               path, note)),
        "none")

\* the body of the EXEC loop
ActExec(ver, m, rs) ==
    { AfterCommand("EXEC", m, rs, r, <<>>) :
      r \in execute_command(ver, Strip(m.g1), rs.st) }

\* the body of the SCRIPT loop: the script saved, and run when the operator
\* is asked and agrees
ActScript(ver, m, rs, auto) ==
    UNION {
        IF AsksToRun(ver, Strip(m.g1), auto)
        THEN { AfterNote("SCRIPT", m, rs, f.path, "not_run") }
             \cup { AfterCommand("SCRIPT", m, rs, r, f.path) :
                    r \in execute_command(ver, ScriptCommand(ver, Strip(m.g1), f.value),
                                          rs.st) }
        ELSE { AfterNote("SCRIPT", m, rs, f.path, "not_asked") } :
        f \in save_script(ver, Strip(m.g1), Strip(m.g2)) }

\* the body of the TEMPLATE loop
ActTemplate(m, rs) ==
    { AfterNote("TEMPLATE", m, rs, t.path, t.note) :
      t \in create_from_template(Strip(m.g1), Strip(m.g2), rs.st.current_dir) }

\* the body of the QUICKCMD loop
ActQuick(ver, m, rs, custom) ==
    UNION {
        IF q.kind = "run"
        THEN { AfterCommand("QUICKCMD", m, rs, r, <<>>) :
               r \in execute_command(ver, q.cmd, rs.st) }
        ELSE IF q.kind = "raised"
        THEN { Run(rs.st,
                   Append(rs.trace, Entry("QUICKCMD", m, rs.st.current_dir,
                                          rs.st.current_dir, <<>>, <<>>, q.kind)),
                   q.exc) }
        ELSE { AfterNote("QUICKCMD", m, rs, <<>>, q.kind) } :
        q \in {execute_quick_command(Strip(m.g1), SplitWS(Strip(m.g2)), custom)} }

\* the body of the DEVOPS loop
ActDevops(m, rs) ==
    { AfterNote("DEVOPS", m, rs, <<>>, n) :
      n \in execute_devops_tool(Strip(m.g1), SplitWS(Strip(m.g2))) }

Act(ver, kind, m, rs, auto, custom) ==
    CASE kind = "EXEC" -> ActExec(ver, m, rs)
      [] kind = "SCRIPT" -> ActScript(ver, m, rs, auto)
      [] kind = "TEMPLATE" -> ActTemplate(m, rs)
      [] kind = "QUICKCMD" -> ActQuick(ver, m, rs, custom)
      [] kind = "DEVOPS" -> ActDevops(m, rs)

\* one "for match in re.finditer(pattern, response, re.DOTALL)" loop, from
\* the position from on: the runs it can end in.  An exception that leaves
\* execute_command or execute_quick_command ends process_response
RECURSIVE RunLoop(_, _, _, _, _, _, _)
RunLoop(ver, kind, response, from, rs, auto, custom) ==
    IF rs.raised # "none" THEN {rs}
    ELSE UNION { IF ~m.ok THEN {rs}
                 ELSE UNION { RunLoop(ver, kind, response, m.end, r2, auto, custom) :
                              r2 \in Act(ver, kind, m, rs, auto, custom) } :
                 m \in {FindMatch(kind, response, from)} }

\* the loops of process_response in the order of the code
Loops(ver) ==
    IF ver = "v04" THEN <<"EXEC", "SCRIPT">>
    ELSE <<"EXEC", "SCRIPT", "TEMPLATE", "QUICKCMD", "DEVOPS">>

RECURSIVE RunLoops(_, _, _, _, _, _)
RunLoops(ver, kinds, response, rs, auto, custom) ==
    IF kinds = <<>> THEN {rs}
    ELSE UNION { RunLoops(ver, Tail(kinds), response, r2, auto, custom) :
                 r2 \in RunLoop(ver, Head(kinds), response, 1, rs, auto, custom) }

\* process_response(response): the runs it can end in
process_response(ver, response, st, auto, custom) ==
    IF ver = "v04" /\ response = <<>> THEN {Run(st, <<>>, "none")}
    ELSE RunLoops(ver, Loops(ver), response, Run(st, <<>>, "none"), auto, custom)

\* the next match re.sub finds for the pattern of a kind, from a position
\* on: process_response calls re.sub without re.DOTALL, so the "." of the
\* body of an EXEC or a SCRIPT directive matches no newline, and a match
\* whose body holds one is no match.  The search goes on after a start
\* that fails
RECURSIVE SubMatch(_, _, _)
SubMatch(kind, s, from) ==
    Only({ IF ~m.ok THEN m
           ELSE IF kind = "EXEC" /\ NextIn(m.g1, {"\n"}, 1) # 0
           THEN SubMatch(kind, s, m.start + 1)
           ELSE IF kind = "SCRIPT" /\ NextIn(m.g3, {"\n"}, 1) # 0
           THEN SubMatch(kind, s, m.start + 1)
           ELSE m :
           m \in {FindMatch(kind, s, from)} })

\* re.sub(pattern, "", s): the text from a position on, without the matches
RECURSIVE re_sub(_, _, _)
re_sub(kind, s, from) ==
    Only({ IF ~m.ok THEN SubSeq(s, from, Len(s))
           ELSE SubSeq(s, from, m.start - 1) \o re_sub(kind, s, m.end) :
           m \in {SubMatch(kind, s, from)} })

\* the text process_response displays: the patterns removed one after the
\* other, in the order of the code, and the result stripped
RECURSIVE RemoveAll(_, _)
RemoveAll(kinds, s) ==
    IF kinds = <<>> THEN s ELSE RemoveAll(Tail(kinds), re_sub(Head(kinds), s, 1))

clean_response(ver, response) == Strip(RemoveAll(Loops(ver), response))

(***************************************************************************)
(* Response check: one model response processed                            *)
(***************************************************************************)
\* the most fragments a checked response is made of
MaxFragments == 2

\* the pieces the checked responses are made of: directives of the five
\* kinds, directives inside the body of another, a script named by a path
\* that climbs out of its directory, a tag whose name is not a \w+ word, a
\* tag never closed, a directive between the two halves of a tag, and prose
ResponseFragments ==
    { <<"[","E","X","E","C","]","c","d"," ","/","a","[","/","E","X","E","C","]">>,
      <<"[","E","X","E","C","]","l","s","[","/","E","X","E","C","]">>,
      <<"[","T","E","M","P","L","A","T","E"," ","d","o","c","k","e","r"," ","a","p","p","]">>,
      <<"[","Q","U","I","C","K","C","M","D"," ","t","r","a","c","e","r","o","u","t","e"," ","h","1","]">>,
      <<"[","Q","U","I","C","K","C","M","D"," ","d","i","s","k","-","u","s","a","g","e","]">>,
      <<"[","D","E","V","O","P","S"," ","d","o","c","k","e","r","_","i","n","f","o","]">>,
      <<"[","S","C","R","I","P","T"," ","b","a","s","h"," ","f","]","\n","e","c","h","o"," ","h","i","\n","[","/","S","C","R","I","P","T","]">>,
      <<"[","S","C","R","I","P","T"," ","b","a","s","h"," ","g","]","[","E","X","E","C","]","r","m"," ","x","[","/","E","X","E","C","]","[","/","S","C","R","I","P","T","]">>,
      <<"[","S","C","R","I","P","T"," ","b","a","s","h"," ",".",".","/",".",".","/",".",".","/","a","/","x",".","s","h","]","i","d","[","/","S","C","R","I","P","T","]">>,
      <<"[","E","X","E","C","]","e","c","h","o"," ","[","D","E","V","O","P","S"," ","k","8","s","_","i","n","f","o","]","[","/","E","X","E","C","]">>,
      <<"[","E","X","E","C","]","l","s">>,
      <<"[","E","X","[","E","X","E","C","]","l","s","[","/","E","X","E","C","]","E","C","]","i","d","[","/","E","X","E","C","]">>,
      <<"V","o","i","c","i",":","\n">> }

\* the checked responses
RECURSIVE ResponseTexts(_)
ResponseTexts(n) ==
    IF n = 0 THEN {<<>>}
    ELSE ResponseTexts(n - 1) \cup
         { t \o f : t \in ResponseTexts(n - 1), f \in ResponseFragments }

\* the directories a checked session starts in
ResponseDirs == { <<"/">>, <<"/","a","/","b">> }

RespInit ==
    /\ version \in {"v04", "v05"}
    /\ current_dir \in ResponseDirs
    /\ aliases = (IF version = "v04" THEN COMMON_ALIASES ELSE <<>>)
    /\ command_history = <<>>
    /\ config_file = <<>>
    /\ last = NoCall
    /\ rp_response = <<>>
    /\ rp_dir0 = current_dir
    /\ rp_auto \in (IF version = "v04" THEN BOOLEAN ELSE {FALSE})
    /\ rp_trace = <<>>
    /\ rp_raised = "none"
    /\ rp_done = FALSE
    /\ rp_clean = <<>>

\* process_response(response) on one response, run to its end
ProcessResponse ==
    /\ ~rp_done
    /\ \E response \in ResponseTexts(MaxFragments), st \in {EngineState} :
           \E r \in process_response(version, response, st, rp_auto, qc_custom) :
               /\ rp_response' = response
               /\ rp_trace' = r.trace
               /\ rp_raised' = r.raised
               /\ rp_clean' = (IF r.raised = "none"
                               THEN clean_response(version, response) ELSE <<>>)
               /\ current_dir' = r.st.current_dir
               /\ command_history' = r.st.command_history
               /\ config_file' = r.st.config_file
    /\ rp_done' = TRUE
    /\ UNCHANGED <<version, aliases, last, rp_dir0, rp_auto>>
(***************************************************************************)
(* The session of v04: MistralAgent.run, one operator line after another,  *)
(* and the signal handler.  A model turn is taken in steps, so that a      *)
(* signal can arrive between them.                                         *)
(***************************************************************************)
VARIABLES ss_pc, ss_line, ss_reply, ss_log, ss_partial, ss_pending, ss_inputs,
          ss_before

sessVars ==
    <<ss_pc, ss_line, ss_reply, ss_log, ss_partial, ss_pending, ss_inputs, ss_before>>

\* the first words process_agent_commands handles (lines 933-1306)
AGENT_COMMANDS ==
    { <<"h","e","l","p">>, <<"s","e","t","-","p","r","o","m","p","t">>, <<"s","e","t","-","a","p","i","-","k","e","y">>, <<"s","a","v","e","-","c","o","n","t","e","x","t">>, <<"l","o","a","d","-","c","o","n","t","e","x","t">>,
      <<"l","i","s","t","-","c","o","n","t","e","x","t","s">>, <<"c","o","n","f","i","g">>, <<"t","h","e","m","e">>, <<"a","l","i","a","s">>, <<"h","i","s","t","o","r","y">>,
      <<"s","y","s","t","e","m","-","i","n","f","o">> }

\* command.strip().split(' ', 1): the text before the first space and, when
\* there is a space, the text after it
SplitFirstSpace(s0) ==
    Only({ Only({ IF i = 0 THEN <<s>>
                  ELSE <<SubSeq(s, 1, i - 1), SubSeq(s, i + 1, Len(s))>> :
                  i \in {NextIn(s, {" "}, 1)} }) :
           s \in {Strip(s0)} })

\* whether process_agent_commands(command) returns True
process_agent_commands(command) ==
    Lower(SplitFirstSpace(command)[1]) \in AGENT_COMMANDS

\* the branch of the loop of run() a line takes, in the order of the code
Dispatch(user_input) ==
    IF Strip(user_input) = <<>> THEN "blank"
    ELSE IF process_agent_commands(user_input) THEN "agent_command"
    ELSE IF Lower(user_input) \in { <<"e","x","i","t">>, <<"q","u","i","t">> } THEN "quit"
    ELSE IF Lower(user_input) \in { <<"c","l","e","a","r">>, <<"p","w","d">> } THEN "local"
    ELSE IF StartsWith(user_input, <<"c","d"," ">>) THEN "shell"
    ELSE IF Lower(user_input) \in { <<"l","s">>, <<"l","s"," ","-","l","a">> } THEN "shell"
    ELSE "model"

\* what call_mistral_api returns for a reply of the API: the content of a
\* 200 response, or the text of the error with the body of the response or
\* the text of the exception in it (lines 712-717)
ReturnedText(reply) ==
    IF reply.kind = "ok" THEN reply.text
    ELSE IF reply.kind = "http_error"
    THEN <<"E","r","r","e","u","r"," ","l","o","r","s"," ","d","e"," ","l","'","a","p","p","e","l"," ","à"," ","l","'","A","P","I"," ","M","i","s","t","r","a","l",":"," ","E","r","r","e","u","r"," ","A","P","I"," ","(","5","0","0",")",":"," ">> \o reply.text
    ELSE <<"E","r","r","e","u","r"," ","d","e"," ","c","o","n","n","e","x","i","o","n"," ","à"," ","l","'","A","P","I"," ","M","i","s","t","r","a","l",":"," ">> \o reply.text

\* a history file as the session sees it on disk: the entries written and
\* whether the text stops before its end
Disk(file, partial) == [file |-> file, partial |-> partial]

\* open(HISTORY_FILE, 'w'): the file exists and is empty
open_w(disk) == Disk([exists |-> TRUE, data |-> <<>>], TRUE)

\* the file after a writer that was interrupted closes: the entries it still
\* holds in its buffer are written from the start of the file, over what is
\* there, and the file keeps what lies beyond them
close_interrupted(disk, pending) ==
    IF Len(pending) >= Len(disk.file.data) + (IF disk.partial THEN 0 ELSE 1)
    THEN Disk([exists |-> TRUE, data |-> pending], TRUE)
    ELSE Disk([exists |-> TRUE,
               data |-> pending \o SubSeq(disk.file.data, Len(pending) + 1,
                                          Len(disk.file.data))],
              disk.partial)

\* a handler that exits without writing the history
Mut_C17_signal_handler(disk, history) == disk

\* signal_handler, lines 387-388: save_history() writes the whole history
signal_handler(disk, history) == Disk(save_history(history), FALSE)

\* signal_handler: what it does before sys.exit(0)
SignalFlush(ver) ==
    IF ver = "v04" THEN <<"save_history", "save_config", "exit0">>
    ELSE <<"save_history", "exit0">>

\* the most operator lines a checked session reads
MaxInputs == 2

\* the lines the operator types
SessionLines ==
    { <<>>, <<"h","e","l","p">>, <<"h","e","l","p"," ","m","e"," ","f","i","x"," ","n","g","i","n","x">>, <<"h","i","s","t","o","r","y">>, <<"h","i","s","t","o","r","y"," ","c","l","e","a","r">>,
      <<"e","x","i","t">>, <<"p","w","d">>, <<"c","d"," ","/","a">>, <<"f","i","x"," ","n","g","i","n","x">> }

\* what the API can answer: a 200 response with its content, another status
\* with its body, an exception of requests with its text
Reply(kind, text) == [kind |-> kind, text |-> text]

NoReply == Reply("none", <<>>)

SessionReplies ==
    { Reply("ok", <<"B","o","n","j","o","u","r",".">>),
      Reply("ok", <<"[","E","X","E","C","]","l","s","[","/","E","X","E","C","]","[","E","X","E","C","]","l","s"," ","-","l","a","[","/","E","X","E","C","]">>),
      Reply("ok", <<"[","E","X","E","C","]"," ","[","/","E","X","E","C","]","[","E","X","E","C","]","l","s","[","/","E","X","E","C","]">>),
      Reply("http_error", <<"[","E","X","E","C","]","l","s","[","/","E","X","E","C","]">>),
      Reply("exception", <<"t","i","m","e","d"," ","o","u","t">>) }

\* the lines of the given branch of the loop
LinesOf(branch) == { l \in SessionLines : Dispatch(l) = branch }

\* get_prompt() returned the line: a new pass of the loop of run()
ReadLine(user_input) ==
    /\ version = "v04"
    /\ ss_pc = "prompt"
    /\ ss_inputs < MaxInputs
    /\ ss_inputs' = ss_inputs + 1
    /\ ss_line' = user_input
    /\ ss_before' = conversation_history
    /\ ss_reply' = NoReply
    /\ rp_response' = <<>>
    /\ rp_trace' = <<>>
    /\ rp_raised' = "none"
    /\ rp_done' = FALSE
    /\ rp_clean' = <<>>
    /\ UNCHANGED <<rp_dir0, rp_auto, ss_partial, ss_pending>>

SessHistUnchanged ==
    UNCHANGED <<prog, max_history, system_message, contexts, saved, turn, op,
                cm_messages, cm_history_size>>

\* lines 1381-1382: "if not user_input.strip(): continue"
IgnoreBlank ==
    /\ \E user_input \in LinesOf("blank") : ReadLine(user_input)
    /\ ss_log' = <<>>
    /\ UNCHANGED <<ss_pc, conversation_history, history_file, engineVars>>
    /\ SessHistUnchanged

\* lines 1385-1386: process_agent_commands handled the line.  "history
\* clear" empties and saves the history when the operator confirms
AgentCommand ==
    /\ \E user_input \in LinesOf("agent_command"), confirmed \in BOOLEAN :
          /\ ReadLine(user_input)
          /\ IF /\ Lower(SplitFirstSpace(user_input)[1]) = <<"h","i","s","t","o","r","y">>
                /\ Len(SplitFirstSpace(user_input)) > 1
                /\ Strip(SplitFirstSpace(user_input)[2]) = <<"c","l","e","a","r">>
                /\ confirmed
             THEN /\ conversation_history' = <<>>
                  /\ history_file' = save_history(<<>>)
                  /\ ss_log' = <<"builtin", "save_history">>
             ELSE /\ ss_log' = <<"builtin">>
                  /\ UNCHANGED <<conversation_history, history_file>>
    /\ UNCHANGED <<ss_pc, engineVars>>
    /\ SessHistUnchanged

\* lines 1389-1392: exit or quit: save_history, save_config, break; main
\* returns and the process ends with status 0
Quit ==
    /\ \E user_input \in LinesOf("quit") : ReadLine(user_input)
    /\ history_file' = save_history(conversation_history)
    /\ ss_log' = <<"save_history", "save_config", "exit0">>
    /\ ss_pc' = "terminated"
    /\ UNCHANGED <<conversation_history, engineVars>>
    /\ SessHistUnchanged

\* lines 1393-1400: clear and pwd
LocalCommand ==
    /\ \E user_input \in LinesOf("local") : ReadLine(user_input)
    /\ ss_log' = <<"local">>
    /\ UNCHANGED <<ss_pc, conversation_history, history_file, engineVars>>
    /\ SessHistUnchanged

\* lines 1401-1416: cd and ls go to execute_command without the model
ShellCommand ==
    /\ \E user_input \in LinesOf("shell"), st \in {EngineState} :
          /\ ReadLine(user_input)
          /\ \E r \in execute_command(version, user_input, st) :
                /\ current_dir' = r.current_dir
                /\ command_history' = r.command_history
                /\ config_file' = r.config_file
    /\ ss_log' = <<"execute_command">>
    /\ UNCHANGED <<ss_pc, version, aliases, last, conversation_history, history_file>>
    /\ SessHistUnchanged

\* lines 1419-1423: every other line is sent to the model
AskModel ==
    /\ \E user_input \in LinesOf("model") : ReadLine(user_input)
    /\ ss_log' = <<"model_call">>
    /\ ss_pc' = "calling"
    /\ UNCHANGED <<conversation_history, history_file, engineVars>>
    /\ SessHistUnchanged

\* the API answered: on a 200 the call goes on to the appends, otherwise
\* it returns the text of the error (lines 712-717)
ModelReplies ==
    /\ ss_pc = "calling"
    /\ \E reply \in SessionReplies :
          /\ ss_reply' = reply
          /\ ss_pc' = IF reply.kind = "ok" THEN "got_reply" ELSE "returned"
          /\ ss_log' = IF reply.kind = "ok" THEN ss_log ELSE Append(ss_log, "logging_error")
    /\ UNCHANGED <<ss_line, ss_partial, ss_pending, ss_inputs, ss_before, conversation_history,
                   history_file, engineVars, respVars>>
    /\ SessHistUnchanged

\* line 701: the user message appended
AppendUser ==
    /\ ss_pc = "got_reply"
    /\ conversation_history' = Append(conversation_history, Message(<<"u","s","e","r">>, ss_line))
    /\ ss_pc' = "user_appended"
    /\ UNCHANGED <<ss_line, ss_reply, ss_log, ss_partial, ss_pending, ss_inputs, ss_before,
                   history_file, engineVars, respVars>>
    /\ SessHistUnchanged

\* lines 702-710: the assistant message appended, the history cut to its
\* last 2 * max_history messages, the content returned
AppendAssistant ==
    /\ ss_pc = "user_appended"
    /\ conversation_history' =
          Only({ IF Len(h) > max_history * 2 THEN LastN(h, max_history * 2) ELSE h :
                 h \in {Append(conversation_history,
                               Message(<<"a","s","s","i","s","t","a","n","t">>, ss_reply.text))} })
    /\ ss_pc' = "returned"
    /\ UNCHANGED <<ss_line, ss_reply, ss_log, ss_partial, ss_pending, ss_inputs, ss_before,
                   history_file, engineVars, respVars>>
    /\ SessHistUnchanged

\* line 1426: process_response is handed what the call returned
BeginResponse ==
    /\ ss_pc = "returned"
    /\ rp_response' = ReturnedText(ss_reply)
    /\ rp_dir0' = current_dir
    /\ ss_log' = Append(ss_log, "process_response")
    /\ ss_pc' = "processing"
    /\ UNCHANGED <<ss_line, ss_reply, ss_partial, ss_pending, ss_inputs, ss_before,
                   conversation_history, history_file, engineVars, rp_auto,
                   rp_trace, rp_raised, rp_done, rp_clean>>
    /\ SessHistUnchanged

\* process_response ran: when it returned, save_history is next (line
\* 1429); an exception that left it is caught by the loop (lines 1433-1441),
\* which goes back to the prompt
EndResponse ==
    /\ ss_pc = "processing"
    /\ \E st \in {EngineState} :
          \E r \in process_response(version, rp_response, st, rp_auto, qc_custom) :
             /\ rp_trace' = r.trace
             /\ rp_raised' = r.raised
             /\ rp_clean' = (IF r.raised = "none"
                             THEN clean_response(version, rp_response) ELSE <<>>)
             /\ current_dir' = r.st.current_dir
             /\ command_history' = r.st.command_history
             /\ config_file' = r.st.config_file
             /\ ss_pc' = IF r.raised = "none" THEN "saving" ELSE "prompt"
             /\ ss_log' = IF r.raised = "none" THEN Append(ss_log, "displayed")
                          ELSE Append(ss_log, "loop_caught")
    /\ rp_done' = TRUE
    /\ UNCHANGED <<ss_line, ss_reply, ss_partial, ss_pending, ss_inputs, ss_before,
                   conversation_history, history_file, version, aliases, last,
                   rp_response, rp_dir0, rp_auto>>
    /\ SessHistUnchanged

\* save_history, line 408: open(HISTORY_FILE, 'w') truncates the file
OpenHistoryFile ==
    /\ ss_pc = "saving"
    /\ \E d \in {open_w(Disk(history_file, ss_partial))} :
          /\ history_file' = d.file
          /\ ss_partial' = d.partial
    /\ ss_pending' = <<>>
    /\ ss_pc' = "writing"
    /\ UNCHANGED <<ss_line, ss_reply, ss_log, ss_inputs, ss_before,
                   conversation_history, engineVars, respVars>>
    /\ SessHistUnchanged

\* save_history, line 410: json.dump hands the next message to the file
\* object, which keeps it in its buffer
WriteChunk ==
    /\ ss_pc = "writing"
    /\ Len(ss_pending) < Len(conversation_history)
    /\ ss_pending' =
          Append(ss_pending,
                 json_dumps_history(conversation_history)[Len(ss_pending) + 1])
    /\ UNCHANGED <<ss_pc, ss_line, ss_reply, ss_log, ss_partial, ss_inputs,
                   ss_before, conversation_history, history_file, engineVars,
                   respVars>>
    /\ SessHistUnchanged

\* save_history, lines 408-410: json.dump done, the with block closes the
\* file and the buffer is written
CloseHistoryFile ==
    /\ ss_pc = "writing"
    /\ Len(ss_pending) = Len(conversation_history)
    /\ history_file' = [exists |-> TRUE, data |-> ss_pending]
    /\ ss_partial' = FALSE
    /\ ss_pending' = <<>>
    /\ ss_log' = Append(ss_log, "save_history")
    /\ ss_pc' = "prompt"
    /\ UNCHANGED <<ss_line, ss_reply, ss_inputs, ss_before, conversation_history,
                   engineVars, respVars>>
    /\ SessHistUnchanged

\* SIGINT or SIGTERM at any point of the session: signal_handler saves the
\* history (a whole write of its own), v04 saves the configuration too, and
\* sys.exit(0) ends the process; SystemExit unwinds the with block of a
\* save_history it interrupted, which closes that writer's file
Signal ==
    /\ ss_pc # "terminated"
    /\ \E d \in {signal_handler(Disk(history_file, ss_partial), conversation_history)} :
          \E e \in {IF ss_pc = "writing" THEN close_interrupted(d, ss_pending) ELSE d} :
             /\ history_file' = e.file
             /\ ss_partial' = e.partial
    /\ ss_log' = ss_log \o SignalFlush(version)
    /\ ss_pc' = "terminated"
    /\ UNCHANGED <<ss_line, ss_reply, ss_pending, ss_inputs, ss_before,
                   conversation_history, engineVars, respVars>>
    /\ SessHistUnchanged

SessInit ==
    /\ version \in {"v04", "v05"}
    /\ current_dir = <<"/">>
    /\ aliases = (IF version = "v04" THEN COMMON_ALIASES ELSE <<>>)
    /\ command_history = <<>>
    /\ config_file = <<>>
    /\ last = NoCall
    /\ prog = version
    /\ conversation_history = <<>>
    /\ max_history \in {1, MAX_HISTORY_ENTRIES_v04}
    /\ history_file = NoFile
    /\ system_message = DefaultPrompt
    /\ contexts = NoFile
    /\ saved = <<>>
    /\ turn = 0
    /\ op = OtherOp
    /\ cm_messages = <<>>
    /\ cm_history_size = DEFAULT_HISTORY_SIZE
    /\ rp_response = <<>>
    /\ rp_dir0 = current_dir
    /\ rp_auto = FALSE
    /\ rp_trace = <<>>
    /\ rp_raised = "none"
    /\ rp_done = FALSE
    /\ rp_clean = <<>>
    /\ ss_pc = "prompt"
    /\ ss_line = <<>>
    /\ ss_reply = NoReply
    /\ ss_log = <<>>
    /\ ss_partial = FALSE
    /\ ss_pending = <<>>
    /\ ss_inputs = 0
    /\ ss_before = <<>>
(***************************************************************************)
(* The assistant of agent_admin: main's loop and CommandHandler            *)
(***************************************************************************)
\* the most lines a checked session of the assistant reads
MaxAssistInputs == 3

\* the lines the operator types
AssistLines ==
    { <<"/","a","i","d","e">>, <<"/","h","i","s","t","o","r","i","q","u","e">>, <<"/","t","i","c","k","e","t">>, <<"/","f","o","o">>, <<"/","q","u","i","t","t","e","r">>,
      <<"f","i","x"," ","n","g","i","n","x">>, <<"r","e","s","t","a","r","t"," ","a","p","a","c","h","e">> }

\* OllamaClient.generate has a yield in its body (line 82): it is a
\* generator function, and a call of it runs none of its body and returns a
\* generator object, whatever the value of stream
ollama_generate(prompt) == [type |-> "generator", text |-> <<>>]

\* what the API of Ollama does with a request: it answers with a text, or
\* the request raises a RequestException
HttpOutcomes ==
    { [ok |-> TRUE, text |-> <<"T","e","s","t"," ","r","e","s","p","o","n","s","e">>],
      [ok |-> FALSE, text |-> <<"T","e","s","t"," ","e","r","r","o","r">>] }

\* the body of generate, lines 39-93, as it runs when the generator is
\* iterated: one POST; without stream the text (or the text of the error)
\* is the value of a return, which an iteration never sees; with stream the
\* text (or the text of the error) is yielded
generate_body(stream, http) ==
    Only({ [log |-> <<"post">>,
            yields |-> IF stream THEN <<text>> ELSE <<>>,
            returns |-> IF stream THEN <<>> ELSE text] :
           text \in {IF http.ok THEN http.text
                     ELSE <<"E","r","r","e","u","r"," ","d","e"," ","c","o","m","m","u","n","i","c","a","t","i","o","n"," ","a","v","e","c"," ","O","l","l","a","m","a",":"," ">> \o http.text} })

\* main, lines 70-80: the connection test calls generate and drops the
\* result; the call of a generator function raises nothing and sends
\* nothing, so the test succeeds whatever the API does
ConnectionTest ==
    /\ prog = "context_manager"
    /\ ss_pc = "start"
    /\ \E http \in HttpOutcomes :
          /\ op' = Op("generate", http.text, http.ok)
          /\ ss_reply' = Only({ Reply(r.type, r.text) :
                                r \in {ollama_generate(<<"T","e","s","t"," ","d","e"," ","c","o","n","n","e","x","i","o","n">>)} })
    /\ ss_line' = <<"T","e","s","t"," ","d","e"," ","c","o","n","n","e","x","i","o","n">>
    /\ ss_log' = <<>>
    /\ ss_pc' = "prompt"
    /\ UNCHANGED <<prog, conversation_history, max_history, history_file,
                   system_message, contexts, saved, turn, cm_messages,
                   cm_history_size, ss_partial, ss_pending, ss_inputs, ss_before,
                   engineVars, respVars>>

\* _handle_conversation: re.findall of _extract_commands (line 176) raises
\* TypeError on a response that is not a string, before the response is
\* displayed or recorded; a string would be recorded as the assistant message
handle_conversation(messages, user_input, history_size) ==
    Only({ IF response.type # "str"
           THEN [messages |-> messages, raised |-> "TypeError"]
           ELSE [messages |-> add_message(messages, <<"a","s","s","i","s","t","a","n","t">>, response.text,
                                          history_size),
                 raised |-> "none"] :
           response \in {ollama_generate(user_input)} })

\* _handle_command for the requests that need no module: /aide and
\* /historique display, /ticket without a description warns, any other
\* name is reported as unknown; none of them changes the messages
handle_command(messages, command) ==
    Only({ IF Lower(parts[1]) \in { <<"/","a","i","d","e">>, <<"/","h","i","s","t","o","r","i","q","u","e">> } THEN "displayed"
           ELSE IF Lower(parts[1]) = <<"/","t","i","c","k","e","t">> /\ Len(parts) = 1 THEN "warning"
           ELSE "unknown" :
           parts \in {IF NextIn(command, {" "}, 1) = 0 THEN <<command>>
                      ELSE <<SubSeq(command, 1, NextIn(command, {" "}, 1) - 1),
                             SubSeq(command, NextIn(command, {" "}, 1) + 1,
                                    Len(command))>>} })

AssistUnchanged ==
    UNCHANGED <<prog, conversation_history, max_history, history_file,
                system_message, contexts, saved, turn, op, cm_history_size,
                ss_reply, ss_partial, ss_pending, engineVars, rp_response, rp_dir0,
                rp_auto, rp_trace, rp_done, rp_clean>>

\* main, lines 87-94, and CommandHandler.process_input: the line is
\* recorded as a user message, then handled as a command or as conversation;
\* an exception leaves the loop and main returns 1 (lines 99-102)
ProcessInput ==
    /\ prog = "context_manager"
    /\ ss_pc = "prompt"
    /\ ss_inputs < MaxAssistInputs
    /\ \E user_input \in AssistLines \ { <<"/","q","u","i","t","t","e","r">> } :
          /\ ss_line' = user_input
          /\ \E m \in {add_message(cm_messages, <<"u","s","e","r">>, user_input, cm_history_size)} :
                IF StartsWith(user_input, <<"/">>)
                THEN /\ cm_messages' = m
                     /\ ss_log' = <<"builtin", handle_command(m, user_input)>>
                     /\ rp_raised' = "none"
                     /\ ss_pc' = "prompt"
                ELSE \E r \in {handle_conversation(m, user_input, cm_history_size)} :
                        /\ cm_messages' = r.messages
                        /\ ss_log' = <<"conversation">>
                        /\ rp_raised' = r.raised
                        /\ ss_pc' = IF r.raised = "none" THEN "prompt" ELSE "crashed"
    /\ ss_before' = cm_messages
    /\ ss_inputs' = ss_inputs + 1
    /\ AssistUnchanged

\* main, lines 90-92: /quitter (in any case) leaves the loop, main returns 0
AssistQuit ==
    /\ prog = "context_manager"
    /\ ss_pc = "prompt"
    /\ ss_inputs < MaxAssistInputs
    /\ ss_line' = <<"/","q","u","i","t","t","e","r">>
    /\ ss_log' = <<"exit0">>
    /\ ss_pc' = "terminated"
    /\ ss_before' = cm_messages
    /\ ss_inputs' = ss_inputs + 1
    /\ UNCHANGED <<cm_messages, rp_raised>>
    /\ AssistUnchanged

AssistInit ==
    /\ prog = "context_manager"
    /\ conversation_history = <<>>
    /\ max_history = MAX_HISTORY_ENTRIES_v04
    /\ history_file = NoFile
    /\ system_message = DefaultPrompt
    /\ contexts = NoFile
    /\ saved = <<>>
    /\ turn = 0
    /\ op = OtherOp
    /\ cm_messages = <<>>
    /\ cm_history_size \in {2, DEFAULT_HISTORY_SIZE}
    /\ ss_pc = "start"
    /\ ss_line = <<>>
    /\ ss_reply = NoReply
    /\ ss_log = <<>>
    /\ ss_partial = FALSE
    /\ ss_pending = <<>>
    /\ ss_inputs = 0
    /\ ss_before = <<>>
(***************************************************************************)
(* mistral_api_agent_v04: the configuration and the aliases of a session.  *)
(* DEFAULT_CONFIG and COMMON_ALIASES are dicts of the module; which dict   *)
(* an attribute refers to is part of the state, since an assignment       *)
(* through one reference is seen through every other one.                 *)
(***************************************************************************)
VARIABLES
    cfg_default,   \* the value of the dict DEFAULT_CONFIG
    cfg_own,       \* the value of the dict self.config refers to when it is not DEFAULT_CONFIG
    cfg_shared,    \* self.config is DEFAULT_CONFIG
    cfg_objs,      \* the alias dicts: COMMON_ALIASES and those made in the session
    cfg_aliases,   \* the alias dict self.aliases refers to
    cfg_file,      \* CONFIG_FILE
    cfg_op         \* the last operation of the session (observation)

cfgVars == <<cfg_default, cfg_own, cfg_shared, cfg_objs, cfg_aliases, cfg_file, cfg_op>>

\* a config dict without the key "aliases"
NoAliases == "none"

\* the alias dict COMMON_ALIASES
CommonRef == "COMMON_ALIASES"

\* the alias dicts a session can hold at a time beside COMMON_ALIASES: those
\* of self.aliases, self.config["aliases"], DEFAULT_CONFIG["aliases"], and
\* the one being made
AliasRefs == {"dict1", "dict2", "dict3", "dict4"}

\* DEFAULT_CONFIG as the module defines it (lines 56-72), the keys the
\* session changes; there is no key "aliases"
DEFAULT_CONFIG ==
    [max_history |-> MAX_HISTORY_ENTRIES_v04, language |-> <<"f","r">>, aliases |-> NoAliases]

\* d[name] = value on a dict in insertion order
dict_set(d, name, value) ==
    IF \E i \in 1..Len(d) : d[i].name = name
    THEN [i \in 1..Len(d) |-> IF d[i].name = name THEN [name |-> name, value |-> value] ELSE d[i]]
    ELSE Append(d, [name |-> name, value |-> value])

\* del d[name]
dict_del(d, name) == SelectSeq(d, LAMBDA e : e.name # name)

\* int(value) of a string of digits
RECURSIVE int(_)
int(s) ==
    IF s = <<>> THEN 0
    ELSE 10 * int(SubSeq(s, 1, Len(s) - 1))
         + Only({n \in 0..9 : <<"0", "1", "2", "3", "4", "5", "6", "7", "8", "9">>[n + 1] = s[Len(s)]})

\* the dict self.config refers to
SelfConfig(default, own, shared) == IF shared THEN default ELSE own

\* json.dump of a config dict: the alias dict is written by value
json_dump_config(config, objs) ==
    [exists |-> TRUE,
     data |-> [max_history |-> config.max_history, language |-> config.language,
               aliases |-> IF config.aliases = NoAliases THEN <<>> ELSE objs[config.aliases],
               has_aliases |-> config.aliases # NoAliases]]

\* the alias dicts some reference of the state reaches
Reached(default, own, shared, aliasref) ==
    ({CommonRef, aliasref, default.aliases} \cup (IF shared THEN {} ELSE {own.aliases}))
        \ {NoAliases}

\* a dict that is not referred to any more is dropped
Collect(objs, default, own, shared, aliasref) ==
    [r \in DOMAIN objs |-> IF r \in Reached(default, own, shared, aliasref) THEN objs[r] ELSE <<>>]

\* a dict made now: one no reference reaches
Fresh(default, own, shared, aliasref) ==
    Only(AliasRefs \ Reached(default, own, shared, aliasref))

\* the state of a session: the two dicts of the module, self.config,
\* self.aliases and the file
CfgState(default, own, shared, objs, aliasref, file) ==
    [default |-> default,
     own |-> IF shared THEN DEFAULT_CONFIG ELSE own,
     shared |-> shared,
     objs |-> Collect(objs, default, own, shared, aliasref),
     aliases |-> aliasref,
     file |-> file]

\* self.config[key] = value, through whichever dict self.config is
config_assign(st, key, value) ==
    Only({ IF st.shared THEN [st EXCEPT !.default = new] ELSE [st EXCEPT !.own = new] :
           new \in {[SelfConfig(st.default, st.own, st.shared) EXCEPT ![key] = value]} })

\* save_config, lines 291-299: CONFIG_FILE rewritten with self.config
save_config(st) ==
    [st EXCEPT !.file = json_dump_config(SelfConfig(st.default, st.own, st.shared), st.objs)]

\* save_aliases, lines 310-313
save_aliases(st) == save_config(config_assign(st, "aliases", st.aliases))

\* load_config, lines 268-289: the dict read from CONFIG_FILE, completed
\* with the missing defaults; without a file the file is written with the
\* defaults and DEFAULT_CONFIG itself is returned
load_config(file) ==
    IF file.exists
    THEN CfgState(DEFAULT_CONFIG,
                  [max_history |-> file.data.max_history, language |-> file.data.language,
                   aliases |-> IF file.data.has_aliases THEN "dict1" ELSE NoAliases],
                  FALSE,
                  [r \in {CommonRef} \cup AliasRefs |->
                      IF r = CommonRef THEN COMMON_ALIASES
                      ELSE IF r = "dict1" /\ file.data.has_aliases THEN file.data.aliases ELSE <<>>],
                  CommonRef, file)
    ELSE CfgState(DEFAULT_CONFIG, DEFAULT_CONFIG, TRUE,
                  [r \in {CommonRef} \cup AliasRefs |->
                      IF r = CommonRef THEN COMMON_ALIASES ELSE <<>>],
                  CommonRef,
                  json_dump_config(DEFAULT_CONFIG, <<>>))

\* load_aliases, lines 301-308: the dict of config["aliases"], or
\* COMMON_ALIASES itself, which is then stored in the configuration
load_aliases(st) ==
    IF SelfConfig(st.default, st.own, st.shared).aliases # NoAliases
    THEN [st EXCEPT !.aliases = SelfConfig(st.default, st.own, st.shared).aliases]
    ELSE save_config(config_assign([st EXCEPT !.aliases = CommonRef], "aliases", CommonRef))

\* __init__, lines 232-254: load_config, the language of the command line,
\* load_aliases
init(file, language) == load_aliases(config_assign(load_config(file), "language", language))

\* "config set key value", lines 1049-1087: an int key takes int(value), a
\* text that is no integer is refused
config_set(st, key, value) ==
    IF key = "max_history"
    THEN IF IsDigits(value) THEN save_config(config_assign(st, key, int(value))) ELSE st
    ELSE save_config(config_assign(st, key, value))

\* "config reset" confirmed, lines 1110-1125: self.config = DEFAULT_CONFIG.copy()
config_reset(st) ==
    save_config([st EXCEPT !.own = st.default, !.shared = FALSE])

\* self.aliases[name] = value and del self.aliases[name], on the dict
\* self.aliases refers to
aliases_assign(st, d) == [st EXCEPT !.objs = [@ EXCEPT ![st.aliases] = d]]

\* "alias set name value", lines 1180-1201
alias_set(st, name, value) ==
    save_aliases(aliases_assign(st, dict_set(st.objs[st.aliases], name, value)))

\* "alias remove name", lines 1209-1226
alias_remove(st, name) ==
    IF \E i \in 1..Len(st.objs[st.aliases]) : st.objs[st.aliases][i].name = name
    THEN save_aliases(aliases_assign(st, dict_del(st.objs[st.aliases], name)))
    ELSE st

\* "alias reset" confirmed, lines 1229-1243: self.aliases = COMMON_ALIASES.copy()
alias_reset(st) ==
    Only({ save_aliases([st EXCEPT !.aliases = new,
                                   !.objs = [@ EXCEPT ![new] = st.objs[CommonRef]]]) :
           new \in {Fresh(st.default, st.own, st.shared, st.aliases)} })

\* the state of the session as one value
Session ==
    [default |-> cfg_default, own |-> cfg_own, shared |-> cfg_shared,
     objs |-> cfg_objs, aliases |-> cfg_aliases, file |-> cfg_file]

\* the session becomes st after the operation named
Becomes(st, name) ==
    \E s2 \in {CfgState(st.default, st.own, st.shared, st.objs, st.aliases, st.file)} :
        /\ cfg_default' = s2.default
        /\ cfg_own' = s2.own
        /\ cfg_shared' = s2.shared
        /\ cfg_objs' = s2.objs
        /\ cfg_aliases' = s2.aliases
        /\ cfg_file' = s2.file
        /\ cfg_op' = name

\* the values of the checked 'config set' lines
ConfigValues == { <<"5">>, <<"e","n">> }

\* the names and the values of the checked 'alias set' and 'alias remove' lines
AliasNames == { <<"l","l">>, <<"x">> }

AliasValues == { <<"r","m"," ","-","r","f"," ","/">> }

\* the languages of the command line
Languages == { <<"f","r">>, <<"e","n">> }

ConfigSet ==
    \E key \in {"max_history", "language"}, value \in ConfigValues :
        Becomes(config_set(Session, key, value), "config set")

ConfigReset == Becomes(config_reset(Session), "config reset")

AliasSet ==
    \E name \in AliasNames, value \in AliasValues :
        Becomes(alias_set(Session, name, value), "alias set")

AliasRemove ==
    \E name \in AliasNames : Becomes(alias_remove(Session, name), "alias remove")

AliasReset == Becomes(alias_reset(Session), "alias reset")

\* the process ends and the agent is started again: the module is loaded
\* anew, and __init__ reads CONFIG_FILE
CfgRestart == \E language \in Languages : Becomes(init(cfg_file, language), "start")

\* a first start without CONFIG_FILE
CfgInit ==
    \E language \in Languages :
        \E st \in {init(NoFile, language)} :
            /\ cfg_default = st.default
            /\ cfg_own = st.own
            /\ cfg_shared = st.shared
            /\ cfg_objs = st.objs
            /\ cfg_aliases = st.aliases
            /\ cfg_file = st.file
            /\ cfg_op = "start"


(***************************************************************************)
(* Specifications                                                          *)
(***************************************************************************)
vars == <<classVars, engineVars, quickVars, histVars, respVars, sessVars, cfgVars>>

\* the classifier variables while another specification runs
ClassifyIdle == cl_cmd = <<>> /\ cl_out = NotClassified

\* the engine variables while another specification runs
EngineIdle ==
    /\ version = "v05"
    /\ current_dir = <<"/">>
    /\ aliases = <<>>
    /\ command_history = <<>>
    /\ config_file = <<>>
    /\ last = NoCall

\* the quick-command variables while another specification runs
QuickIdle == qc_custom = <<>> /\ qc_name = <<>> /\ qc_args = <<>> /\ qc_out = NotResolved

\* the configuration variables while another specification runs
CfgIdle ==
    /\ cfg_default = DEFAULT_CONFIG
    /\ cfg_own = DEFAULT_CONFIG
    /\ cfg_shared = FALSE
    /\ cfg_objs = <<>>
    /\ cfg_aliases = CommonRef
    /\ cfg_file = NoFile
    /\ cfg_op = "idle"

\* the history variables while another specification runs
HistIdle ==
    /\ prog = "v04"
    /\ conversation_history = <<>>
    /\ max_history = MAX_HISTORY_ENTRIES_v04
    /\ history_file = NoFile
    /\ system_message = DefaultPrompt
    /\ contexts = NoFile
    /\ saved = <<>>
    /\ turn = 0
    /\ op = OtherOp
    /\ cm_messages = <<>>
    /\ cm_history_size = DEFAULT_HISTORY_SIZE

\* the response variables while another specification runs
RespIdle ==
    /\ rp_response = <<>>
    /\ rp_dir0 = <<>>
    /\ rp_auto = FALSE
    /\ rp_trace = <<>>
    /\ rp_raised = "none"
    /\ rp_done = FALSE
    /\ rp_clean = <<>>

SessIdle ==
    /\ ss_pc = "idle"
    /\ ss_line = <<>>
    /\ ss_reply = NoReply
    /\ ss_log = <<>>
    /\ ss_partial = FALSE
    /\ ss_pending = <<>>
    /\ ss_inputs = 0
    /\ ss_before = <<>>

InitEngine == EngineInit /\ ClassifyIdle /\ QuickIdle /\ CfgIdle /\ HistIdle /\ RespIdle /\ SessIdle

InitClassify == ClassifyInit /\ EngineIdle /\ QuickIdle /\ CfgIdle /\ HistIdle /\ RespIdle /\ SessIdle

InitQuick == QuickInit /\ CfgIdle /\ EngineIdle /\ ClassifyIdle /\ HistIdle /\ RespIdle /\ SessIdle

InitHist == HistInit /\ EngineIdle /\ ClassifyIdle /\ QuickIdle /\ CfgIdle /\ RespIdle /\ SessIdle

InitResp == RespInit /\ ClassifyIdle /\ QuickIdle /\ CfgIdle /\ HistIdle /\ SessIdle

InitCtx == CtxInit /\ ClassifyIdle /\ QuickIdle /\ CfgIdle /\ RespIdle /\ SessIdle

EngineNext == ExecuteCommand /\ UNCHANGED <<classVars, quickVars, histVars, respVars, sessVars, cfgVars>>

ClassifyNext == Classify /\ UNCHANGED <<engineVars, quickVars, histVars, respVars, sessVars, cfgVars>>

QuickNext == QuickCommand /\ UNCHANGED <<classVars, histVars, respVars, sessVars, cfgVars>>

HistNext ==
    \/ Turn /\ UNCHANGED <<classVars, engineVars, quickVars, respVars, sessVars, cfgVars>>
    \/ ConfigSetMaxHistory /\ UNCHANGED <<classVars, engineVars, quickVars, respVars, sessVars, cfgVars>>
    \/ Restart /\ UNCHANGED <<classVars, engineVars, quickVars, respVars, sessVars, cfgVars>>
    \/ HistoryClear /\ UNCHANGED <<classVars, engineVars, quickVars, respVars, sessVars, cfgVars>>
    \/ AddMessage /\ UNCHANGED <<classVars, engineVars, quickVars, respVars, sessVars, cfgVars>>

CtxNext ==
    \/ CtxTurn /\ UNCHANGED <<classVars, engineVars, quickVars, respVars, sessVars, cfgVars>>
    \/ HistoryClear /\ UNCHANGED <<classVars, engineVars, quickVars, respVars, sessVars, cfgVars>>
    \/ SetPrompt /\ UNCHANGED <<classVars, engineVars, quickVars, respVars, sessVars, cfgVars>>
    \/ SaveContext /\ UNCHANGED <<classVars, quickVars, respVars, sessVars, cfgVars>>
    \/ LoadContext /\ UNCHANGED <<classVars, quickVars, respVars, sessVars, cfgVars>>
    \/ OperatorCd /\ UNCHANGED <<classVars, quickVars, respVars, sessVars, cfgVars>>

RespNext == ProcessResponse /\ UNCHANGED <<classVars, quickVars, histVars, sessVars, cfgVars>>

\* the execution engine: calls of execute_command in a session of v04 or v05
Spec == InitEngine /\ [][EngineNext]_vars

\* the classifiers applied to one drawn command
SpecClassify == InitClassify /\ [][ClassifyNext]_vars

\* one quick command resolved and run in a session of v05
SpecQuick == InitQuick /\ [][QuickNext]_vars

\* the conversation history of a session of v04, and of a ContextManager
SpecHist == InitHist /\ [][HistNext]_vars

\* the context snapshots of a session of v04
SpecCtx == InitCtx /\ [][CtxNext]_vars

\* one model response processed in a session of v04 or v05
SpecResp == InitResp /\ [][RespNext]_vars

InitSess == SessInit /\ ClassifyIdle /\ QuickIdle /\ CfgIdle

SessNext ==
    \/ IgnoreBlank /\ UNCHANGED <<classVars, quickVars, cfgVars>>
    \/ AgentCommand /\ UNCHANGED <<classVars, quickVars, cfgVars>>
    \/ Quit /\ UNCHANGED <<classVars, quickVars, cfgVars>>
    \/ LocalCommand /\ UNCHANGED <<classVars, quickVars, cfgVars>>
    \/ ShellCommand /\ UNCHANGED <<classVars, quickVars, cfgVars>>
    \/ AskModel /\ UNCHANGED <<classVars, quickVars, cfgVars>>
    \/ ModelReplies /\ UNCHANGED <<classVars, quickVars, cfgVars>>
    \/ AppendUser /\ UNCHANGED <<classVars, quickVars, cfgVars>>
    \/ AppendAssistant /\ UNCHANGED <<classVars, quickVars, cfgVars>>
    \/ BeginResponse /\ UNCHANGED <<classVars, quickVars, cfgVars>>
    \/ EndResponse /\ UNCHANGED <<classVars, quickVars, cfgVars>>
    \/ OpenHistoryFile /\ UNCHANGED <<classVars, quickVars, cfgVars>>
    \/ WriteChunk /\ UNCHANGED <<classVars, quickVars, cfgVars>>
    \/ CloseHistoryFile /\ UNCHANGED <<classVars, quickVars, cfgVars>>
    \/ Signal /\ UNCHANGED <<classVars, quickVars, cfgVars>>

\* the session of run(): operator lines, model turns in steps, signals
SpecSession == InitSess /\ [][SessNext]_vars

InitAssist == AssistInit /\ ClassifyIdle /\ EngineIdle /\ QuickIdle /\ CfgIdle /\ RespIdle

AssistNext ==
    \/ ConnectionTest /\ UNCHANGED <<classVars, quickVars, cfgVars>>
    \/ ProcessInput /\ UNCHANGED <<classVars, quickVars, cfgVars>>
    \/ AssistQuit /\ UNCHANGED <<classVars, quickVars, cfgVars>>

\* the assistant of agent_admin: operator lines handled by CommandHandler
SpecAssist == InitAssist /\ [][AssistNext]_vars

InitLoad == CtxInit /\ ClassifyIdle /\ QuickIdle /\ CfgIdle /\ RespIdle /\ SessIdle

LoadNext ==
    \/ CtxTurn /\ UNCHANGED <<classVars, engineVars, quickVars, respVars, sessVars, cfgVars>>
    \/ SetPrompt /\ UNCHANGED <<classVars, engineVars, quickVars, respVars, sessVars, cfgVars>>
    \/ SaveContextIfReadable /\ UNCHANGED <<classVars, quickVars, respVars, sessVars, cfgVars>>
    \/ DamageStore /\ UNCHANGED <<classVars, quickVars, respVars, sessVars, cfgVars>>
    \/ LoadContext /\ UNCHANGED <<classVars, quickVars, respVars, sessVars, cfgVars>>
    \/ OperatorCd /\ UNCHANGED <<classVars, quickVars, respVars, sessVars, cfgVars>>

\* the context snapshots of a session of v04 whose store may be changed from
\* outside the session
SpecLoad == InitLoad /\ [][LoadNext]_vars

InitCfg ==
    CfgInit /\ ClassifyIdle /\ EngineIdle /\ QuickIdle /\ HistIdle /\ RespIdle /\ SessIdle

CfgNext ==
    \/ ConfigSet /\ UNCHANGED <<classVars, engineVars, quickVars, histVars, respVars, sessVars>>
    \/ ConfigReset /\ UNCHANGED <<classVars, engineVars, quickVars, histVars, respVars, sessVars>>
    \/ AliasSet /\ UNCHANGED <<classVars, engineVars, quickVars, histVars, respVars, sessVars>>
    \/ AliasRemove /\ UNCHANGED <<classVars, engineVars, quickVars, histVars, respVars, sessVars>>
    \/ AliasReset /\ UNCHANGED <<classVars, engineVars, quickVars, histVars, respVars, sessVars>>
    \/ CfgRestart /\ UNCHANGED <<classVars, engineVars, quickVars, histVars, respVars, sessVars>>

\* the configuration and the aliases of sessions of v04, from a first start
SpecConfig == InitCfg /\ [][CfgNext]_vars

(***************************************************************************)
(* Claims                                                                  *)
(***************************************************************************)
\* the protected path prefixes the claim's redirection rule names
C4_ProtectedPrefixes == SAFETY_SYSTEM_PATHS

\* C4's reading of "dangerous" for the three classifiers, once they have run
C4_Dangerous(which) ==
    CASE which = "v05" -> cl_out.v05 = "True"
      [] which = "v04" -> cl_out.v04 = "True"
      [] which = "safety" -> cl_out.safety = "unsafe"

\* C4: a command containing a redirection operator is marked dangerous only
\* when it targets a path under a protected prefix, mixes a pipe/redirect with
\* rm/mv, or is dangerous by its first token; and classify("rm -rf /") is
\* dangerous, classify("ls -la") is safe, classify("echo hi > /etc/passwd") is
\* dangerous and classify("echo hi > /tmp/out.txt") is safe.
C4_RedirectOnlyWhenProtected ==
    cl_out # NotClassified =>
        \A which \in {"v05", "v04", "safety"} :
            /\ (cl_cmd = <<"r","m"," ","-","r","f"," ","/">> => C4_Dangerous(which))
            /\ (cl_cmd = <<"l","s"," ","-","l","a">> => ~C4_Dangerous(which))
            /\ (cl_cmd = <<"e","c","h","o"," ","h","i"," ",">"," ","/","e","t","c","/","p","a","s","s","w","d">> => C4_Dangerous(which))
            /\ (cl_cmd = <<"e","c","h","o"," ","h","i"," ",">"," ","/","t","m","p","/","o","u","t",".","t","x","t">> => ~C4_Dangerous(which))
            /\ (Contains(cl_cmd, <<">">>) /\ C4_Dangerous(which) =>
                   \/ \E i \in 1..Len(C4_ProtectedPrefixes) :
                          Contains(cl_cmd, C4_ProtectedPrefixes[i])
                   \/ Contains(cl_cmd, <<"r","m">>) \/ Contains(cl_cmd, <<"m","v">>)
                   \/ InList(SplitWS(cl_cmd)[1], DANGEROUS_COMMANDS_v05))

\* whether the events of the last call hold an event of the kind
C1_Has(call, kind) == \E i \in 1..Len(call.events) : call.events[i].ev = kind

\* C1: when execute_command is given a command the classifier marks
\* dangerous, no subprocess is spawned unless the operator was asked first and
\* confirmed; and when the operator declines, the call returns the cancelled
\* result, spawns nothing and leaves the working directory, the command
\* history and the persisted configuration as they were before the call.
\* (execute_command never touches the conversation history.)
C1_DeclineLeavesNoTrace ==
    [][ last'.classified = "True" =>
          /\ C1_Has(last', "spawn") =>
                 /\ last'.answer = "yes"
                 /\ \E i, j \in 1..Len(last'.events) :
                        /\ i < j
                        /\ last'.events[i].ev = "prompt"
                        /\ last'.events[j].ev = "spawn"
          /\ last'.answer = "no" =>
                 /\ last'.result.kind = "cancelled"
                 /\ ~C1_Has(last', "spawn")
                 /\ current_dir' = current_dir
                 /\ command_history' = command_history
                 /\ config_file' = config_file ]_vars

\* whether the last call took the cd branch
C5_IsCd == last.result.kind \in {"cd_ok", "cd_missing", "cd_error"}

\* C5's resolution of a cd target against the directory the call started in
C5_Resolved ==
    Only({ os_path_normpath(
               IF StartsWith(target, <<"/">>) THEN target
               ELSE IF target = <<"~">> THEN HOME
               ELSE IF StartsWith(target, <<"~","/">>) THEN HOME \o DropFirst(target, 1)
               ELSE os_path_join(last.cwd_before, target)) :
           target \in {Strip(DropFirst(Strip(last.command), 3))} })

\* C5: after a cd, if the target resolved as the claim says (absolute when
\* it starts with '/' or '~', otherwise relative to the directory the call
\* started in, '.' and '..' resolved) is an existing directory the process
\* may enter, the working directory is that path and the call returned
\* success carrying it; if it is not an existing directory, the working
\* directory is the one the call started in and the call returned a failure.
C5_CdResolves ==
    C5_IsCd =>
        \A resolved \in {C5_Resolved} :
            /\ (os_path_isdir(resolved) /\ resolved \notin LockedDirs) =>
                   /\ current_dir = resolved
                   /\ last.result = Result("cd_ok", resolved)
            /\ ~os_path_isdir(resolved) =>
                   /\ current_dir = last.cwd_before
                   /\ last.result.kind # "cd_ok"

\* the template a quick-command name stands for: the user's, else the built-in
C9_Template ==
    IF HasKey(qc_custom, qc_name) THEN Lookup(qc_custom, qc_name)
    ELSE Lookup(QUICK_COMMANDS, qc_name)

\* a quick command was asked for under a known name
C9_Known == qc_out # NotResolved /\ (HasKey(qc_custom, qc_name) \/ HasKey(QUICK_COMMANDS, qc_name))

\* the placeholder names of the template asked for, in order of occurrence
C9_Placeholders == FindallParams(C9_Template, 1)

\* the call was given fewer arguments than the template has placeholders
C9_Short == C9_Known /\ C9_Placeholders # <<>> /\ Len(qc_args) < Len(C9_Placeholders)

C10_Distinct(names) ==
    SelectSeq([i \in 1..Len(names) |-> [n |-> names[i],
                                        first |-> \A j \in 1..(i - 1) : names[j] # names[i]]],
              LAMBDA e : e.first)

\* the position a placeholder name binds: that of its first occurrence among
\* the distinct names
C10_Position(name, names) ==
    Min({k \in 1..Len(C10_Distinct(names)) : C10_Distinct(names)[k].n = name})

\* the template with each {name} replaced by the argument at the name's
\* position, everything else verbatim; scanning from index i
RECURSIVE C10_Substituted(_, _, _, _)
C10_Substituted(t, i0, names, args) ==
    Only({
        IF open = 0 THEN SubSeq(t, i0, Len(t))
        ELSE Only({
                 IF close = 0 THEN SubSeq(t, i0, Len(t))
                 ELSE IF close = open + 1
                 THEN SubSeq(t, i0, open) \o C10_Substituted(t, open + 1, names, args)
                 ELSE SubSeq(t, i0, open - 1)
                          \o args[C10_Position(SubSeq(t, open + 1, close - 1), names)]
                          \o C10_Substituted(t, close + 1, names, args) :
                 close \in {IndexOf(t, "}", open + 1)} }) :
        open \in {IndexOf(t, "{", i0)} })

\* C10: given at least as many arguments as the template has placeholder
\* names (a repeated name counting once), the quick command resolves to the
\* template with each placeholder replaced by the argument at its name's
\* position, all occurrences of a name alike, and that command is what is
\* handed to execute_command; a template without placeholders resolves to
\* itself; and resolving a built-in template never raises.
C10_ResolvesPositionally ==
    C9_Known =>
        /\ Len(qc_args) >= Len(C10_Distinct(C9_Placeholders)) =>
               /\ qc_out.kind = "run"
               /\ qc_out.cmd = C10_Substituted(C9_Template, 1, C9_Placeholders, qc_args)
        /\ C9_Placeholders = <<>> => qc_out.cmd = C9_Template
        /\ ~HasKey(qc_custom, qc_name) => qc_out.kind # "raised"

\* the n most recent elements of a list, all of it when it has no more
C7_Recent(list, n) ==
    IF Len(list) <= n THEN list ELSE SubSeq(list, Len(list) - n + 1, Len(list))

\* C7: when an append to the conversation history completes (the two
\* messages of a successful turn of v04, one add_message of ContextManager)
\* under the configured maximum N, the history holds no more than N messages,
\* and they are the N most recent of the history before the append followed
\* by the appended messages, in their order.
C7_AppendKeepsLastN ==
    [][ /\ (op'.name = "turn" /\ op'.ok /\ turn' = turn + 1) =>
              /\ Len(conversation_history') <= max_history
              /\ conversation_history' =
                     C7_Recent(conversation_history \o
                                   <<Message(<<"u", "s", "e", "r">>, UserContent(turn')),
                                     Message(<<"a", "s", "s", "i", "s", "t", "a", "n", "t">>,
                                             AssistantContent(turn'))>>,
                               max_history)
        /\ (op'.name = "add_message" /\ turn' = turn + 1) =>
              /\ Len(cm_messages') <= cm_history_size
              /\ \E m \in {cm_messages'[Len(cm_messages')]} :
                     cm_messages' = C7_Recent(Append(cm_messages, m), cm_history_size)
      ]_vars

\* the last operation loaded a snapshot name under which a save succeeded
C8_LoadedSaved == op.name = "load_context" /\ op.arg \in DOMAIN saved

\* C8: once save_context(name) has succeeded, whatever turns, cd commands,
\* prompt changes and history clears follow, load_context(name) succeeds and
\* leaves the conversation history, the working directory and the system
\* message equal to what they were when the name was last saved.
C8_SnapshotRoundTrip ==
    C8_LoadedSaved =>
        /\ op.ok
        /\ conversation_history = saved[op.arg].history
        /\ current_dir = saved[op.arg].current_dir
        /\ system_message = saved[op.arg].system_message

\* a snapshot holding the first exchange only was loaded after the second
\* turn had been appended
C8_LoadedAfterLaterTurn ==
    /\ C8_LoadedSaved
    /\ op.ok
    /\ turn = 2
    /\ Len(conversation_history) = 2
    /\ conversation_history[1].content = UserContent(1)

\* C2: process_response acts on the directives of a response in the order
\* their opening tags appear in the text, whatever their kinds: of two
\* directives acted on, the one acted on first is the one that opens first.
C2_ActsInTagOrder ==
    rp_done =>
        \A i, j \in 1..Len(rp_trace) :
            i < j => rp_trace[i].start < rp_trace[j].start

\* C3: directive matching is non-overlapping: no directive acted on opens
\* inside the span of another directive acted on.
C3_NoDirectiveInsideAnother ==
    rp_done =>
        \A i, j \in 1..Len(rp_trace) :
            ~(rp_trace[i].start < rp_trace[j].start /\ rp_trace[j].start < rp_trace[i].end)

\* the directory the text of the response puts in force at position pos: the
\* one set by the last successful cd directive that opens before pos, the
\* directory of the session before the response when there is none
C6_DirAt(pos) ==
    IF \E j \in 1..Len(rp_trace) : rp_trace[j].note = "cd_ok" /\ rp_trace[j].start < pos
    THEN rp_trace[CHOOSE j \in 1..Len(rp_trace) :
                      /\ rp_trace[j].note = "cd_ok"
                      /\ rp_trace[j].start < pos
                      /\ \A k \in 1..Len(rp_trace) :
                             (rp_trace[k].note = "cd_ok" /\ rp_trace[k].start < pos)
                                 => rp_trace[k].start <= rp_trace[j].start].dir_after
    ELSE rp_dir0

\* C6: within one response every directive that runs a command or writes a
\* template acts in the working directory set by the successful cd directives
\* whose tags open before its own tag: the directory of the last of them, the
\* directory in force before the response when none precedes it.
C6_DirectivesSeeEarlierCd ==
    rp_done =>
        \A i \in 1..Len(rp_trace) :
            (rp_trace[i].kind \in {"EXEC", "TEMPLATE", "QUICKCMD"} \/ rp_trace[i].cmd # <<>>)
                => rp_trace[i].cwd = C6_DirAt(rp_trace[i].start)

\* the path, normalised, lies under the directory
C11_Under(path, dir) == StartsWith(os_path_normpath(path), dir \o <<"/">>)

\* C11: whatever file name a SCRIPT or TEMPLATE directive supplies, the file
\* it writes lies under the script output directory SCRIPTS_DIR.
C11_WrittenUnderScriptsDir ==
    rp_done =>
        \A i \in 1..Len(rp_trace) :
            (rp_trace[i].kind \in {"SCRIPT", "TEMPLATE"} /\ rp_trace[i].path # <<>>)
                => C11_Under(rp_trace[i].path, SCRIPTS_DIR)

(***************************************************************************)
(* Claims on the session                                                   *)
(***************************************************************************)
\* the model call of the turn in hand failed
CallFailed == ss_reply.kind \in {"http_error", "exception"}

\* C12: when the model call fails, no directive extraction is attempted on
\* any text of the turn, so that no command runs from an error body, and
\* the conversation history is what it was before the turn
C12_FailedCallEndsTurn ==
    CallFailed =>
        /\ ss_pc \notin {"processing", "saving", "writing"}
        /\ rp_trace = <<>>
        /\ conversation_history = ss_before

\* the number of directives of the given kind in a response, from a position on
RECURSIVE MatchCount(_, _, _)
MatchCount(kind, response, from) ==
    Only({ IF ~m.ok THEN 0 ELSE 1 + MatchCount(kind, response, m.end) :
           m \in {FindMatch(kind, response, from)} })

\* the number of directives process_response finds in a response
RECURSIVE DirectiveCount(_, _)
DirectiveCount(kinds, response) ==
    IF kinds = <<>> THEN 0
    ELSE MatchCount(Head(kinds), response, 1) + DirectiveCount(Tail(kinds), response)

\* C13: a directive that fails never aborts the batch: once process_response
\* is over, every directive of the response was processed and the residual
\* prose was reached for display
C13_FailedDirectiveKeepsBatch ==
    (rp_done /\ ss_pc \in {"prompt", "saving", "writing"}) =>
        /\ rp_raised = "none"
        /\ Len(rp_trace) = DirectiveCount(Loops(version), rp_response)

(***************************************************************************)
(* Claims on the classifiers: commands that cannot be tokenized            *)
(***************************************************************************)
\* C14: a command whose shell tokenization fails (unbalanced quotes) is
\* classified dangerous by is_dangerous_command; the classifier neither
\* raises nor answers that the command is safe
C14_UnparseableIsDangerous ==
    (cl_out # NotClassified /\ ~shlex_split(cl_cmd).ok) =>
        /\ cl_out.v04 = "True"
        /\ cl_out.v05 = "True"

(***************************************************************************)
(* Claims on the session: persistence and termination                      *)
(***************************************************************************)
\* C15: whenever a turn changed the conversation history, the history file
\* holds the new value before the next operator line is accepted, also when
\* a directive of the turn raised an error
C15_SavedBeforeNextInput ==
    (ss_pc = "prompt" /\ conversation_history # ss_before) =>
        history_file = save_history(conversation_history)

\* the step was logged before the last entry of the log
LoggedBeforeExit(step) == \E i \in 1..(Len(ss_log) - 1) : ss_log[i] = step

\* C16: the session ends only through flushing: when the process has
\* terminated, after a signal or a quit, the history and the configuration
\* were both saved before the exit with status 0
C16_FlushedBeforeExit ==
    ss_pc = "terminated" =>
        /\ ss_log # <<>>
        /\ ss_log[Len(ss_log)] = "exit0"
        /\ LoggedBeforeExit("save_history")
        /\ LoggedBeforeExit("save_config")

\* C17: an interrupt at any point of a turn never corrupts the persisted
\* history: once the process has terminated, the history file holds the
\* whole serialisation of the history the session held, not a text that
\* stops before its end
C17_NeverCorrupted ==
    ss_pc = "terminated" =>
        /\ ~ss_partial
        /\ history_file = save_history(conversation_history)

\* the signal arrived while save_history had written a part of the history
C17_InterruptedWhileWriting ==
    /\ ss_pc = "terminated"
    /\ ss_pending # <<>>
    /\ Len(ss_pending) < Len(conversation_history)

(***************************************************************************)
(* Claims on the session: built-in requests                                *)
(***************************************************************************)
\* the requests display_help documents: the words a request starts with and
\* the fewest and the most arguments that follow them
Form(words, least, most) == [words |-> words, least |-> least, most |-> most]

BUILTIN_FORMS ==
    { Form(<< <<"h","e","l","p">> >>, 0, 0), Form(<< <<"e","x","i","t">> >>, 0, 0), Form(<< <<"q","u","i","t">> >>, 0, 0),
      Form(<< <<"c","l","e","a","r">> >>, 0, 0), Form(<< <<"p","w","d">> >>, 0, 0), Form(<< <<"c","d">> >>, 1, 1),
      Form(<< <<"s","e","t","-","p","r","o","m","p","t">> >>, 1, 99), Form(<< <<"s","e","t","-","a","p","i","-","k","e","y">> >>, 1, 1),
      Form(<< <<"s","a","v","e","-","c","o","n","t","e","x","t">> >>, 0, 1), Form(<< <<"l","o","a","d","-","c","o","n","t","e","x","t">> >>, 0, 1),
      Form(<< <<"l","i","s","t","-","c","o","n","t","e","x","t","s">> >>, 0, 0), Form(<< <<"c","o","n","f","i","g">> >>, 0, 0),
      Form(<< <<"c","o","n","f","i","g">>, <<"s","e","t">> >>, 2, 2), Form(<< <<"c","o","n","f","i","g">>, <<"g","e","t">> >>, 1, 1),
      Form(<< <<"c","o","n","f","i","g">>, <<"r","e","s","e","t">> >>, 0, 0), Form(<< <<"t","h","e","m","e">> >>, 0, 1),
      Form(<< <<"a","l","i","a","s">> >>, 0, 0), Form(<< <<"a","l","i","a","s">>, <<"s","e","t">> >>, 2, 99),
      Form(<< <<"a","l","i","a","s">>, <<"r","e","m","o","v","e">> >>, 1, 1), Form(<< <<"a","l","i","a","s">>, <<"r","e","s","e","t">> >>, 0, 0),
      Form(<< <<"h","i","s","t","o","r","y">> >>, 0, 0), Form(<< <<"h","i","s","t","o","r","y">>, <<"c","l","e","a","r">> >>, 0, 0),
      Form(<< <<"s","y","s","t","e","m","-","i","n","f","o">> >>, 0, 0) }

\* the line is a request of one of the documented forms
IsBuiltinRequest(line) ==
    \E f \in BUILTIN_FORMS, w \in {SplitWS(line)} :
        /\ Len(w) >= Len(f.words) + f.least
        /\ Len(w) <= Len(f.words) + f.most
        /\ SubSeq(w, 1, Len(f.words)) = f.words

\* C18: a line that is a built-in request is handled without a call to the
\* model, and a line that is not a built-in request is forwarded to the
\* model
C18_BuiltinsBypassModel ==
    (ss_inputs > 0 /\ Strip(ss_line) # <<>>) =>
        (IsBuiltinRequest(ss_line) <=> ss_log[1] # "model_call")

(***************************************************************************)
(* Claims on what a turn appends to the history                            *)
(***************************************************************************)
\* the history of the program in hand
History == IF prog = "context_manager" THEN cm_messages ELSE conversation_history

\* a is what is left of b after messages were dropped from its front
IsSuffix(a, b) == Len(a) <= Len(b) /\ a = SubSeq(b, Len(b) - Len(a) + 1, Len(b))

\* C19: a successful model turn appends the operator's line as one user
\* message and the model's response, unmodified, as one assistant message;
\* a built-in command and a failed turn append nothing
C19_TurnAppendsExchange ==
    (ss_inputs > 0 /\ ss_pc \in {"prompt", "crashed"}) =>
        IF ss_reply.kind = "ok"
        THEN /\ Len(History) >= 2
             /\ History[Len(History) - 1] = Message(<<"u","s","e","r">>, ss_line)
             /\ History[Len(History)] = Message(<<"a","s","s","i","s","t","a","n","t">>, ss_reply.text)
             /\ IsSuffix(SubSeq(History, 1, Len(History) - 2), ss_before)
        ELSE IsSuffix(History, ss_before)

(***************************************************************************)
(* Claims on the displayed text                                            *)
(***************************************************************************)
\* C20: the text left after the directives are removed holds no directive:
\* the extraction of process_response finds nothing in it
C20_ProseHoldsNoDirective ==
    (rp_done /\ rp_raised = "none") =>
        DirectiveCount(Loops(version), rp_clean) = 0

(***************************************************************************)
(* Claims on malformed directives                                          *)
(***************************************************************************)
\* the text an opening tag of the kind starts with
OpeningTag(kind) == IF kind = "EXEC" THEN <<"[","E","X","E","C","]">> ELSE <<"[","S","C","R","I","P","T">>

\* an opening tag of the kind lies inside the span a..b of the response,
\* after the tag the span starts with: the tag at a was never closed
HoldsUnterminated(kind, s, a, b) ==
    \E i \in (a + 1)..(b - 1) : StartsWithAt(s, OpeningTag(kind), i)

\* C21: the text of an unterminated EXEC or SCRIPT tag is never executed or
\* written as part of a directive, also when a well-formed directive of the
\* same kind follows it
C21_UnterminatedNeverActedOn ==
    rp_done =>
        \A k \in 1..Len(rp_trace) :
            rp_trace[k].kind \in {"EXEC", "SCRIPT"} =>
                ~HoldsUnterminated(rp_trace[k].kind, rp_response,
                                   rp_trace[k].start, rp_trace[k].end)

(***************************************************************************)
(* Claims on the snapshot store                                            *)
(***************************************************************************)
\* the step is a save_context(name) that succeeded
SavedNow(name) == op' = Op("save_context", name, TRUE)

GenerateReturned == op.name = "generate" /\ ss_pc = "prompt" /\ ss_inputs = 0

\* C23: generate called without stream returns a string: after a request
\* exception a text that holds 'Erreur de communication avec Ollama', on
\* success the text of the response, one POST having been sent
C23_GenerateReturnsText ==
    GenerateReturned =>
        /\ ss_reply.kind = "str"
        /\ ss_log = <<"post">>
        /\ IF op.ok THEN ss_reply.text = op.arg
           ELSE Contains(ss_reply.text, <<"E","r","r","e","u","r"," ","d","e"," ","c","o","m","m","u","n","i","c","a","t","i","o","n"," ","a","v","e","c"," ","O","l","l","a","m","a">>)

(***************************************************************************)
(* Claims on the configuration and the aliases                             *)
(***************************************************************************)
\* C24: after a confirmed 'config reset' every configuration key has its
\* built-in default (an alias key, when there is one, holds the built-in
\* aliases), and after a confirmed 'alias reset' the aliases of the session
\* are the built-in common aliases
C24_ResetRestoresBuiltins ==
    /\ cfg_op = "config reset" =>
           /\ ~cfg_shared
           /\ cfg_own.max_history = DEFAULT_CONFIG.max_history
           /\ cfg_own.language = DEFAULT_CONFIG.language
           /\ cfg_own.aliases # NoAliases => cfg_objs[cfg_own.aliases] = COMMON_ALIASES
    /\ cfg_op = "alias reset" => cfg_objs[cfg_aliases] = COMMON_ALIASES

C26_StartsWithCd ==
    \E c \in {Strip(last.command)} :
        c = <<"c","d">> \/ (StartsWith(c, <<"c","d">>) /\ IsSpace(c[3]))

\* C26: a command that starts with cd is handled in-process: no subprocess
\* is spawned and no confirmation is asked for it, whether the target
\* exists or not
C26_CdInProcess ==
    C26_StartsWithCd =>
        /\ last.result.kind \in {"cd_ok", "cd_missing", "cd_error"}
        /\ last.answer = "not asked"
        /\ \A i \in 1..Len(last.events) : last.events[i].ev \notin {"spawn", "prompt"}

\* the command of the last call with its alias expanded
C27_Expanded ==
    IF version = "v04" THEN ExpandAlias_v04(last.input, aliases)
    ELSE ExpandAlias_v05(last.input, aliases)

\* the last call went down the shell path: it was no cd command and the
\* alias step did not raise
C27_ShellPath ==
    /\ last.result.kind \notin {"none", "cd_ok", "cd_missing", "cd_error"}
    /\ last.raised # "IndexError"

\* C27: the alias is expanded before the command is classified: what is
\* classified is the expanded command, a subprocess is spawned for a
\* command classified dangerous only after the operator has confirmed, and
\* the command spawned is the expanded command that was classified
C27_AliasCannotBypassGate ==
    C27_ShellPath =>
        /\ last.command = C27_Expanded.command
        /\ last.classified = is_dangerous_command(version, C27_Expanded.command)
        /\ \A i \in 1..Len(last.events) :
               last.events[i].ev = "spawn" =>
                   /\ last.events[i].cmd = C27_Expanded.command
                   /\ last.classified = "True" =>
                          /\ last.answer = "yes"
                          /\ \E j \in 1..(i - 1) :
                                 last.events[j] = Event("prompt", C27_Expanded.command,
                                                        last.cwd_before)
        /\ (last.classified = "True" /\ last.answer # "yes") =>
               last.result = Result("cancelled", <<>>)

\* an alias that stands for a dangerous command was run after the operator
\* confirmed the expanded command
C27_DangerousAliasConfirmed ==
    /\ C27_ShellPath
    /\ last.command # last.input
    /\ last.classified = "True"
    /\ last.answer = "yes"
    /\ \E i \in 1..Len(last.events) : last.events[i].ev = "spawn"

(***************************************************************************)
(* Claims on the list of dangerous commands                                *)
(***************************************************************************)
\* the entries of v05's DANGEROUS_COMMANDS the classified command begins
\* with: the command is the entry, or the entry followed by a space
C28_EntriesBegun ==
    { i \in 1..Len(DANGEROUS_COMMANDS_v05) :
          \/ cl_cmd = DANGEROUS_COMMANDS_v05[i]
          \/ StartsWith(cl_cmd, DANGEROUS_COMMANDS_v05[i] \o <<" ">>) }

\* C28: every entry of v05's list of dangerous commands is effective, the
\* entries of two words included: a command that begins with an entry,
\* followed by arguments or not, is classified dangerous
C28_EveryEntryEffective ==
    (cl_out # NotClassified /\ cl_out.v05 # "ValueError" /\ C28_EntriesBegun # {}) =>
        cl_out.v05 = "True"

(***************************************************************************)
(* Claims on the shape of the history                                      *)
(***************************************************************************)
\* C29: the history of a session is a sequence of exchanges: its length is
\* even and its messages are user, assistant, user, assistant, ... from the
\* first one on, after turns, trimming, a clear and a restart
C29_HistoryIsPaired ==
    prog = "v04" =>
        /\ Len(conversation_history) % 2 = 0
        /\ \A i \in 1..Len(conversation_history) :
               conversation_history[i].role =
                   (IF i % 2 = 1 THEN <<"u","s","e","r">> ELSE <<"a","s","s","i","s","t","a","n","t">>)

(***************************************************************************)
(* Claims on the loading of a snapshot                                     *)
(***************************************************************************)
\* C30: load_context is all-or-nothing: it replaces the history, the
\* working directory and the system message together and reports success,
\* or it reports failure and leaves the three as they were, whether the
\* name is absent, the store unreadable or the entry lacks a key
C30_LoadAllOrNothing ==
    [][op'.name = "load_context" =>
           IF op'.ok
           THEN /\ StoreWhole(contexts)
                /\ op'.arg \in DOMAIN contexts.data
                /\ conversation_history' =
                       json_loads_history(contexts.data[op'.arg].history)
                /\ current_dir' \in
                       {json_loads_str(contexts.data[op'.arg].current_dir), PROCESS_CWD}
                /\ system_message' =
                       json_loads_str(contexts.data[op'.arg].system_message)
           ELSE UNCHANGED <<conversation_history, current_dir, system_message>>]_vars
====
